---- MODULE Spec2Model ----
\* Verification model of the tag-driven validator in src/validate.go and
\* src/validators.go: the expression splitter (splitValidators), the rule
\* parser (parseValidators), the predicates (validateEq .. validateFormat)
\* and the recursive evaluator (validateField / validateStruct / Validate).
\*
\* Strings are sequences of one-character strings, so that splitting and
\* parsing are computed character by character as the code does.
EXTENDS Integers, Sequences, FiniteSets, TLC

\* ------------------------------------------------------------------------
\* Characters and Go string primitives
\* ------------------------------------------------------------------------

Digits == {"0", "1", "2", "3", "4", "5", "6", "7", "8", "9"}

Letters == {"a", "b", "c", "d", "e", "f", "g", "h", "i", "j", "k", "l", "m",
            "n", "o", "p", "q", "r", "s", "t", "u", "v", "w", "x", "y", "z",
            "A", "B", "C", "D", "E", "F", "G", "H", "I", "J", "K", "L", "M",
            "N", "O", "P", "Q", "R", "S", "T", "U", "V", "W", "X", "Y", "Z"}

\* the class [[:alnum:]_] of regexpType
IsTypeChar(c) == c \in Letters \cup Digits \cup {"_"}

\* the class \s of regexpValue
IsSpace(c) == c \in {" "}

\* Go's s[lo:hi] on a string (0-based, half-open)
Slice(s, lo, hi) == SubSeq(s, lo + 1, hi)

\* Go panics on s[lo:hi] unless 0 <= lo <= hi <= len(s)
SliceInRange(s, lo, hi) == 0 <= lo /\ lo <= hi /\ hi <= Len(s)

RECURSIVE IndexFrom(_, _, _)
\* index (0-based) of the first sep in s at or after i, or -1
IndexFrom(s, sep, i) ==
    IF i >= Len(s) THEN -1
    ELSE IF s[i + 1] = sep THEN i
    ELSE IndexFrom(s, sep, i + 1)

RECURSIVE Split(_, _)
\* strings.Split(s, sep) for a one-character separator: n separators give
\* n+1 pieces, empty pieces included
Split(s, sep) ==
    LET k == IndexFrom(s, sep, 0)
    IN  IF k = -1 THEN <<s>>
        ELSE <<Slice(s, 0, k)>> \o Split(Slice(s, k + 1, Len(s)), sep)

RECURSIVE TrimLeft(_)
TrimLeft(s) ==
    IF s = <<>> THEN s
    ELSE IF IsSpace(Head(s)) THEN TrimLeft(Tail(s))
    ELSE s

RECURSIVE TrimRight(_)
TrimRight(s) ==
    IF s = <<>> THEN s
    ELSE IF IsSpace(s[Len(s)]) THEN TrimRight(SubSeq(s, 1, Len(s) - 1))
    ELSE s

\* strings.TrimSpace
TrimSpace(s) == TrimRight(TrimLeft(s))

\* ------------------------------------------------------------------------
\* splitValidators
\* ------------------------------------------------------------------------

RECURSIVE scanValidators(_, _, _, _, _)
\* the scanning loop of splitValidators; i is the 0-based loop index
scanValidators(validators, i, bracket, bracketStart, bracketEnd) ==
    IF i >= Len(validators)
    THEN [i |-> i, bracket |-> bracket,
          bracketStart |-> bracketStart, bracketEnd |-> bracketEnd]
    ELSE LET c == validators[i + 1]
         IN  IF c = ">"
             THEN IF bracket = 0
                  THEN [i |-> i, bracket |-> bracket,
                        bracketStart |-> bracketStart,
                        bracketEnd |-> bracketEnd]
                  ELSE scanValidators(validators, i + 1, bracket,
                                      bracketStart, bracketEnd)
             ELSE IF c = "["
             THEN scanValidators(validators, i + 1, bracket + 1,
                                 IF bracket = 0 THEN i ELSE bracketStart,
                                 bracketEnd)
             ELSE IF c = "]"
             THEN scanValidators(validators, i + 1, bracket - 1,
                                 bracketStart,
                                 IF bracket - 1 = 0 THEN i ELSE bracketEnd)
             ELSE scanValidators(validators, i + 1, bracket,
                                 bracketStart, bracketEnd)

\* faulty variant of sliceValidators: the separating space is added only
\* when there is text on both sides of the bracket group
sliceValidatorsBothSides(validators, sc) ==
    LET n == Len(validators)
        val1 == IF sc.bracketStart <= n
                THEN Slice(validators, 0, sc.bracketStart) ELSE <<>>
        tail == IF sc.bracketEnd + 1 <= n
                THEN Slice(validators, sc.bracketEnd + 1, sc.i) ELSE <<>>
    IN  [keyValidators |-> IF /\ sc.bracketStart + 1 <= n
                              /\ sc.bracketEnd >= 0
                              /\ sc.bracketStart + 1 <= sc.bracketEnd
                           THEN Slice(validators, sc.bracketStart + 1,
                                      sc.bracketEnd)
                           ELSE <<>>,
         valValidators |-> IF val1 # <<>> /\ tail # <<>>
                           THEN val1 \o <<" ">> \o tail
                           ELSE val1 \o tail,
         remaningValidators |-> IF sc.i + 1 <= n
                                THEN Slice(validators, sc.i + 1, n) ELSE <<>>,
         bracket |-> sc.bracket,
         i |-> sc.i,
         bracketStart |-> sc.bracketStart,
         bracketEnd |-> sc.bracketEnd,
         inRange |-> TRUE]

\* the slice expressions of splitValidators after the scan sc: key
\* validators, value validators and the validators of the next level.
\* bracket is the depth left by the scan; inRange says that every slice
\* expression taken had bounds Go accepts.
sliceValidators(validators, sc) ==
    LET n == Len(validators)
        i == sc.i
        bracketStart == sc.bracketStart
        bracketEnd == sc.bracketEnd
        takeHead == bracketStart <= n
        val1 == IF takeHead THEN Slice(validators, 0, bracketStart) ELSE <<>>
        takeTail == bracketEnd + 1 <= n
        val2 == IF takeTail
                THEN (IF val1 # <<>> THEN val1 \o <<" ">> ELSE val1)
                     \o Slice(validators, bracketEnd + 1, i)
                ELSE val1
        takeKey == bracketStart + 1 <= n /\ bracketEnd >= 0
                   /\ bracketStart + 1 <= bracketEnd
        takeRem == i + 1 <= n
    IN  [keyValidators |-> IF takeKey
                           THEN Slice(validators, bracketStart + 1, bracketEnd)
                           ELSE <<>>,
         valValidators |-> val2,
         remaningValidators |-> IF takeRem THEN Slice(validators, i + 1, n)
                                ELSE <<>>,
         bracket |-> sc.bracket,
         i |-> i,
         bracketStart |-> bracketStart,
         bracketEnd |-> bracketEnd,
         inRange |-> /\ (takeHead => SliceInRange(validators, 0, bracketStart))
                     /\ (takeTail => SliceInRange(validators, bracketEnd + 1, i))
                     /\ (takeKey => SliceInRange(validators, bracketStart + 1,
                                                 bracketEnd))
                     /\ (takeRem => SliceInRange(validators, i + 1, n))]

\* faulty variant of splitValidators: 0, not -1, stands for "no closing
\* bracket seen"
splitValidatorsEndZero(validators) ==
    sliceValidators(validators, scanValidators(validators, 0, 0, 0, 0))

\* splitValidators
splitValidators(validators) ==
    sliceValidators(validators, scanValidators(validators, 0, 0, 0, -1))

\* ------------------------------------------------------------------------
\* parseValidators
\* ------------------------------------------------------------------------

RECURSIVE TakeTypeChars(_)
\* the longest prefix of s made of [[:alnum:]_]
TakeTypeChars(s) ==
    IF s = <<>> \/ ~IsTypeChar(Head(s)) THEN <<>>
    ELSE <<Head(s)>> \o TakeTypeChars(Tail(s))

RECURSIVE regexpTypeFindString(_)
\* regexp `[[:alnum:]_]+`, FindString: the leftmost longest run
regexpTypeFindString(s) ==
    IF s = <<>> THEN <<>>
    ELSE IF IsTypeChar(Head(s)) THEN TakeTypeChars(s)
    ELSE regexpTypeFindString(Tail(s))

RECURSIVE TakeNonSpace(_)
\* the longest prefix of s made of [^=\s] (s holds no '=')
TakeNonSpace(s) ==
    IF s = <<>> \/ IsSpace(Head(s)) THEN <<>>
    ELSE <<Head(s)>> \o TakeNonSpace(Tail(s))

\* faulty variant of regexpValueFindString: the match ends at the first
\* space
regexpValueFirstRun(s) == TakeNonSpace(TrimLeft(s))

\* regexp `[^=\s]+[^=]*[^=\s]+|[^=\s]+`, FindString on a string without '=':
\* the match starts at the first non-space character; the first alternative
\* (greedy) runs to the last non-space character and needs two of them, the
\* second alternative is the first run of non-space characters
regexpValueFindString(s) ==
    LET l == TrimLeft(s)
        both == TrimRight(l)
    IN  IF l = <<>> THEN <<>>
        ELSE IF Len(both) >= 2 THEN both
        ELSE TakeNonSpace(l)

RECURSIVE parseAnd(_)
\* the inner loop of parseValidators over the '&' entries of one '|' entry
parseAnd(entriesAnd) ==
    IF entriesAnd = <<>> THEN <<>>
    ELSE LET entries == Split(Head(entriesAnd), "=")
             t == regexpTypeFindString(entries[1])
             v == IF Len(entries) = 2 THEN regexpValueFindString(entries[2])
                  ELSE <<>>
         IN  (IF Len(t) > 0 THEN <<[Type |-> t, Value |-> v]>> ELSE <<>>)
             \o parseAnd(Tail(entriesAnd))

RECURSIVE parseOr(_)
\* the outer loop of parseValidators over the '|' entries
parseOr(entriesOr) ==
    IF entriesOr = <<>> THEN <<>>
    ELSE LET validatorsAnd == parseAnd(Split(Head(entriesOr), "&"))
         IN  (IF Len(validatorsAnd) > 0 THEN <<validatorsAnd>> ELSE <<>>)
             \o parseOr(Tail(entriesOr))

\* parseValidators: the OR list of AND lists of validator{Type, Value}
parseValidators(validators) == parseOr(Split(validators, "|"))

\* ------------------------------------------------------------------------
\* Values (reflect.Value) and errors
\* ------------------------------------------------------------------------

\* A value is a record:
\*   kind    "int" | "uint" | "string" | "bool" | "ptr" | "slice" | "array"
\*           | "map" | "struct"
\*   n       the number of an int / uint
\*   str     the characters of a string
\*   keys    the keys of a map, in the order MapKeys returns them
\*   elems   map values (elems[i] belongs to keys[i]), slice / array
\*           elements, struct field values, the pointee of a non-nil pointer
\*           (<<>> for a nil pointer)
\*   fields  the struct type's fields: [name, tag, exported]
\*   cv      receiver of the type's Validate() method: "none" | "value" |
\*           "pointer"; for a pointer, that of the pointee type
\*   cvFails whether that method returns an error for this value
Val(kind, n, str, keys, elems, fields) ==
    [kind |-> kind, n |-> n, str |-> str, keys |-> keys, elems |-> elems,
     fields |-> fields, cv |-> "none", cvFails |-> FALSE]

IntV(n) == Val("int", n, <<>>, <<>>, <<>>, <<>>)
UintV(n) == Val("uint", n, <<>>, <<>>, <<>>, <<>>)
StrV(s) == Val("string", 0, s, <<>>, <<>>, <<>>)
BoolV(b) == Val("bool", IF b THEN 1 ELSE 0, <<>>, <<>>, <<>>, <<>>)
NilPtr == Val("ptr", 0, <<>>, <<>>, <<>>, <<>>)
PtrV(elem) == [Val("ptr", 0, <<>>, <<>>, <<elem>>, <<>>) EXCEPT !.cv = elem.cv]
SliceV(elems) == Val("slice", 0, <<>>, <<>>, elems, <<>>)
ArrayV(elems) == Val("array", 0, <<>>, <<>>, elems, <<>>)
MapV(keys, elems) == Val("map", 0, <<>>, keys, elems, <<>>)
StructV(fields, elems) == Val("struct", 0, <<>>, <<>>, elems, fields)
Field(name, tag, exported) == [name |-> name, tag |-> tag, exported |-> exported]

\* a value with a Validate() method
WithValidate(value, receiver, fails) ==
    [value EXCEPT !.cv = receiver, !.cvFails = fails]

\* the zero reflect.Value
Invalid == Val("invalid", 0, <<>>, <<>>, <<>>, <<>>)

ValueKind(value) == value.kind
\* reflect.Value.Len for a string, map, slice or array
ValueLen(value) == IF value.kind = "string" THEN Len(value.str)
                   ELSE Len(value.elems)
\* reflect.Value.IsNil for a pointer
ValueIsNil(value) == value.elems = <<>>

\* error values: nil, ErrorValidation, ErrorSyntax, the error of a custom
\* Validate() method, and a run-time panic
NoError == [type |-> "nil", fieldName |-> "", fieldValue |-> Invalid,
            validatorType |-> <<>>, validatorValue |-> <<>>]

ErrorValidation(fieldName, fieldValue, validatorType, validatorValue) ==
    [type |-> "validation", fieldName |-> fieldName, fieldValue |-> fieldValue,
     validatorType |-> validatorType, validatorValue |-> validatorValue]

ErrorSyntax == [type |-> "syntax", fieldName |-> "", fieldValue |-> Invalid,
                validatorType |-> <<>>, validatorValue |-> <<>>]

CustomError(value) == [type |-> "custom", fieldName |-> "", fieldValue |-> value,
                       validatorType |-> <<>>, validatorValue |-> <<>>]

PanicError(value) == [type |-> "panic", fieldName |-> "", fieldValue |-> value,
                      validatorType |-> <<>>, validatorValue |-> <<>>]

IsErr(err) == err.type # "nil"

\* ------------------------------------------------------------------------
\* strconv
\* ------------------------------------------------------------------------

DigitValue(c) == CASE c = "0" -> 0 [] c = "1" -> 1 [] c = "2" -> 2
                   [] c = "3" -> 3 [] c = "4" -> 4 [] c = "5" -> 5
                   [] c = "6" -> 6 [] c = "7" -> 7 [] c = "8" -> 8
                   [] c = "9" -> 9

RECURSIVE DecimalValue(_)
DecimalValue(s) == IF s = <<>> THEN 0
                   ELSE 10 * DecimalValue(SubSeq(s, 1, Len(s) - 1))
                        + DigitValue(s[Len(s)])

AllDigits(s) == s # <<>> /\ \A k \in 1..Len(s) : s[k] \in Digits

\* strconv.ParseUint(s, 10, 64): digits only, no sign.  The parameters of
\* the inputs are short, so the 64-bit range error cannot arise.
ParseUint(s) == IF AllDigits(s) THEN [ok |-> TRUE, val |-> DecimalValue(s)]
                ELSE [ok |-> FALSE, val |-> 0]

\* strconv.ParseInt(s, 10, 64): an optional sign, then digits
ParseInt(s) ==
    IF s = <<>> THEN [ok |-> FALSE, val |-> 0]
    ELSE IF Head(s) \in {"+", "-"}
    THEN LET u == ParseUint(Tail(s))
         IN  [ok |-> u.ok, val |-> IF Head(s) = "-" THEN 0 - u.val ELSE u.val]
    ELSE ParseUint(s)

\* strconv.Atoi
Atoi(s) == ParseInt(s)

\* strconv.ParseBool
ParseBool(s) ==
    IF s \in {<<"1">>, <<"t">>, <<"T">>, <<"T", "R", "U", "E">>,
              <<"t", "r", "u", "e">>, <<"T", "r", "u", "e">>}
    THEN [ok |-> TRUE, val |-> TRUE]
    ELSE IF s \in {<<"0">>, <<"f">>, <<"F">>, <<"F", "A", "L", "S", "E">>,
                   <<"f", "a", "l", "s", "e">>, <<"F", "a", "l", "s", "e">>}
    THEN [ok |-> TRUE, val |-> FALSE]
    ELSE [ok |-> FALSE, val |-> FALSE]

RECURSIVE parseTokensLoop(_)
parseTokensLoop(tokenStrings) ==
    IF tokenStrings = <<>> THEN <<>>
    ELSE LET token == TrimSpace(Head(tokenStrings))
         IN  (IF token # <<>> THEN <<token>> ELSE <<>>)
             \o parseTokensLoop(Tail(tokenStrings))

\* parseTokens: the non-empty trimmed pieces between commas
parseTokens(str) == parseTokensLoop(Split(str, ","))

\* ------------------------------------------------------------------------
\* Validators (src/validators.go)
\* ------------------------------------------------------------------------

ValidatorEq == <<"e", "q">>
ValidatorNe == <<"n", "e">>
ValidatorGt == <<"g", "t">>
ValidatorLt == <<"l", "t">>
ValidatorGte == <<"g", "t", "e">>
ValidatorLte == <<"l", "t", "e">>
ValidatorEmpty == <<"e", "m", "p", "t", "y">>
ValidatorNil == <<"n", "i", "l">>
ValidatorOneOf == <<"o", "n", "e", "_", "o", "f">>
ValidatorFormat == <<"f", "o", "r", "m", "a", "t">>

LenKinds == {"string", "map", "slice", "array"}

\* the comparison that makes each validator return errorValidation
compareFails(validatorType, v, token) ==
    CASE validatorType = ValidatorEq -> v # token
      [] validatorType = ValidatorNe -> v = token
      [] validatorType = ValidatorGt -> v <= token
      [] validatorType = ValidatorLt -> v >= token
      [] validatorType = ValidatorGte -> v < token
      [] validatorType = ValidatorLte -> v > token

\* The common body of validateEq, validateNe, validateGt, validateLt,
\* validateGte and validateLte.  A parameter that does not parse
\* (err != nil) leaves the condition false and the validator returns nil.
compareValidator(value, name, validator, validatorType) ==
    LET errorValidation == ErrorValidation(name, value, validatorType, validator)
    IN  CASE value.kind = "int" ->
               LET token == ParseInt(validator)
               IN  IF token.ok /\ compareFails(validatorType, value.n, token.val)
                   THEN errorValidation ELSE NoError
          [] value.kind = "uint" ->
               LET token == ParseUint(validator)
               IN  IF token.ok /\ compareFails(validatorType, value.n, token.val)
                   THEN errorValidation ELSE NoError
          [] value.kind \in LenKinds ->
               LET token == Atoi(validator)
               IN  IF token.ok
                      /\ compareFails(validatorType, ValueLen(value), token.val)
                   THEN errorValidation ELSE NoError
          [] OTHER -> NoError

validateEq(value, name, validator) ==
    compareValidator(value, name, validator, ValidatorEq)
validateNe(value, name, validator) ==
    compareValidator(value, name, validator, ValidatorNe)
validateGt(value, name, validator) ==
    compareValidator(value, name, validator, ValidatorGt)
validateLt(value, name, validator) ==
    compareValidator(value, name, validator, ValidatorLt)
validateGte(value, name, validator) ==
    compareValidator(value, name, validator, ValidatorGte)
\* faulty variant of validateLte: nothing is ever greater
validateLteNever(value, name, validator) == NoError

validateLte(value, name, validator) ==
    compareValidator(value, name, validator, ValidatorLte)

validateEmpty(value, name, validator) ==
    LET errorValidation == ErrorValidation(name, value, ValidatorEmpty, validator)
        isEmpty == ParseBool(validator)
    IN  IF value.kind \in LenKinds /\ isEmpty.ok
        THEN IF isEmpty.val /\ ValueLen(value) > 0 THEN errorValidation
             ELSE IF ~isEmpty.val /\ ValueLen(value) = 0 THEN errorValidation
             ELSE NoError
        ELSE NoError

validateNil(value, name, validator) ==
    LET errorValidation == ErrorValidation(name, value, ValidatorNil, validator)
        isNil == ParseBool(validator)
    IN  IF value.kind = "ptr" /\ isNil.ok
        THEN IF isNil.val /\ ~ValueIsNil(value) THEN errorValidation
             ELSE IF ~isNil.val /\ ValueIsNil(value) THEN errorValidation
             ELSE NoError
        ELSE NoError

\* tokenOneOf over tokens converted by parse; a token that does not parse
\* becomes nil and equals no value
tokenOneOfNumber(n, tokens, kind) ==
    \E k \in 1..Len(tokens) :
        LET token == IF kind = "int" THEN ParseInt(tokens[k])
                     ELSE ParseUint(tokens[k])
        IN  token.ok /\ token.val = n

\* tokenOneOf over string tokens
tokenOneOf(token, tokens) == \E k \in 1..Len(tokens) : tokens[k] = token

validateOneOf(value, name, validator) ==
    LET errorValidation == ErrorValidation(name, value, ValidatorOneOf, validator)
        tokens == parseTokens(validator)
    IN  CASE value.kind = "int" ->
               IF Len(tokens) > 0 /\ ~tokenOneOfNumber(value.n, tokens, "int")
               THEN errorValidation ELSE NoError
          [] value.kind = "uint" ->
               IF Len(tokens) > 0 /\ ~tokenOneOfNumber(value.n, tokens, "uint")
               THEN errorValidation ELSE NoError
          [] value.kind = "string" ->
               IF Len(tokens) > 0 /\ ~tokenOneOf(value.str, tokens)
               THEN errorValidation ELSE NoError
          [] OTHER -> NoError

FormatAlpha == <<"a", "l", "p", "h", "a">>

\* formatAlpha: alphaRegex ^[a-zA-Z]+$
formatAlpha(str) == str # <<>> /\ \A k \in 1..Len(str) : str[k] \in Letters

\* the keys of getFormatTypeMap that the inputs use
getFormatTypeMap == {FormatAlpha}

formatFunc(format, str) ==
    CASE format = FormatAlpha -> formatAlpha(str)

validateFormat(value, name, validator) ==
    LET errorValidation == ErrorValidation(name, value, ValidatorFormat, validator)
    IN  IF value.kind = "string" /\ validator \in getFormatTypeMap
           /\ ~formatFunc(validator, value.str)
        THEN errorValidation ELSE NoError

\* the keys of getValidatorTypeMap
getValidatorTypeMap ==
    {ValidatorEq, ValidatorNe, ValidatorGt, ValidatorLt, ValidatorGte,
     ValidatorLte, ValidatorEmpty, ValidatorNil, ValidatorOneOf,
     ValidatorFormat}

\* validatorTypeMap[validatorType](value, name, validator)
validatorFunc(validatorType, value, name, validator) ==
    CASE validatorType = ValidatorEq -> validateEq(value, name, validator)
      [] validatorType = ValidatorNe -> validateNe(value, name, validator)
      [] validatorType = ValidatorGt -> validateGt(value, name, validator)
      [] validatorType = ValidatorLt -> validateLt(value, name, validator)
      [] validatorType = ValidatorGte -> validateGte(value, name, validator)
      [] validatorType = ValidatorLte -> validateLte(value, name, validator)
      [] validatorType = ValidatorEmpty -> validateEmpty(value, name, validator)
      [] validatorType = ValidatorNil -> validateNil(value, name, validator)
      [] validatorType = ValidatorOneOf -> validateOneOf(value, name, validator)
      [] validatorType = ValidatorFormat -> validateFormat(value, name, validator)

\* ------------------------------------------------------------------------
\* validateField, validateStruct, Validate (src/validate.go)
\* ------------------------------------------------------------------------

\* Every evaluation returns [err, log]: the error returned (NoError for nil)
\* and the sequence of things done, in order: "visit" for a call of
\* validateField, "custom" for a call of a Validate() method, "rule" for a
\* call of a validator function.
LogEntry(op, value, fieldName, validatorType, param) ==
    [op |-> op, value |-> value, fieldName |-> fieldName,
     validatorType |-> validatorType, param |-> param]

Result(err, log) == [err |-> err, log |-> log]

\* what validateField returns; stage names the return statement taken: after
\* the custom validator, after the validators, inside the dive, or the last
Returned(err, log, stage) == [err |-> err, log |-> log, stage |-> stage]

\* value.Interface().(CustomValidator): the method set of a type T holds the
\* methods with receiver T, that of *T the methods with receiver T or *T
implementsCustomValidator(value) ==
    IF value.kind = "ptr" THEN value.cv \in {"value", "pointer"}
    ELSE value.cv = "value"

\* customValidator.Validate(): a method called through a nil pointer panics
\* (a value receiver cannot be copied from nil; the pointer-receiver methods
\* of this package's users read a field of the receiver)
callCustomValidator(value) ==
    IF value.kind = "ptr"
    THEN IF ValueIsNil(value) THEN PanicError(value)
         ELSE IF value.elems[1].cvFails THEN CustomError(value.elems[1])
         ELSE NoError
    ELSE IF value.cvFails THEN CustomError(value) ELSE NoError

\* faulty variant of customValidatorStep: the error of the method is wrapped
\* in an ErrorValidation
customValidatorStepWrapped(value, fieldName, ro) ==
    IF ~ro /\ implementsCustomValidator(value)
    THEN Result(IF IsErr(callCustomValidator(value))
                THEN ErrorValidation(fieldName, value, <<>>, <<>>)
                ELSE NoError,
                <<LogEntry("custom", value, fieldName, <<>>, <<>>)>>)
    ELSE Result(NoError, <<>>)

\* "Call a custom validator": ro is the read-only flag reflect sets on a
\* value obtained through an unexported field (CanInterface is false)
customValidatorStep(value, fieldName, ro) ==
    IF ~ro /\ implementsCustomValidator(value)
    THEN Result(callCustomValidator(value),
                <<LogEntry("custom", value, fieldName, <<>>, <<>>)>>)
    ELSE Result(NoError, <<>>)

RECURSIVE performAnd(_, _, _, _, _, _)

\* faulty variant of breakAnd: the inner loop goes on after an error
breakAndContinue(value, fieldName, validatorsAnd, j, err, log) ==
    performAnd(value, fieldName, validatorsAnd, j + 1, err, log)

\* "if err != nil { break }" of the inner loop: err is what the validator
\* function just returned
breakAnd(value, fieldName, validatorsAnd, j, err, log) ==
    IF IsErr(err) THEN Result(err, log)
    ELSE performAnd(value, fieldName, validatorsAnd, j + 1, err, log)

\* faulty variant of performAnd: an unregistered validator type is an error
performAndStrict(value, fieldName, validatorsAnd, j, err, log) ==
    IF \E k \in j..Len(validatorsAnd) :
           validatorsAnd[k].Type \notin getValidatorTypeMap
    THEN Result(ErrorSyntax, log)
    ELSE Result(err, log)

\* the inner loop of "Perform validators": err is the variable err of
\* validateField, which an unregistered validator type leaves untouched
performAnd(value, fieldName, validatorsAnd, j, err, log) ==
    IF j > Len(validatorsAnd) THEN Result(err, log)
    ELSE IF validatorsAnd[j].Type \in getValidatorTypeMap
    THEN breakAnd(value, fieldName, validatorsAnd, j,
                  validatorFunc(validatorsAnd[j].Type, value, fieldName,
                                validatorsAnd[j].Value),
                  Append(log, LogEntry("rule", value, fieldName,
                                       validatorsAnd[j].Type,
                                       validatorsAnd[j].Value)))
    ELSE performAnd(value, fieldName, validatorsAnd, j + 1, err, log)

RECURSIVE performOr(_, _, _, _, _, _)

\* faulty variant of breakOr: the outer loop ends after any group
breakOrAlways(value, fieldName, validatorsOr, k, r) == r

\* "if err == nil { break }" of the outer loop: r is what the inner loop left
breakOr(value, fieldName, validatorsOr, k, r) ==
    IF ~IsErr(r.err) THEN r
    ELSE performOr(value, fieldName, validatorsOr, k + 1, r.err, r.log)

\* faulty variant of performOr: the first group decides, later groups are
\* never tried
performOrFirstGroup(value, fieldName, validatorsOr, k, err, log) ==
    IF k > Len(validatorsOr) THEN Result(err, log)
    ELSE performAnd(value, fieldName, validatorsOr[k], 1, err, log)

\* the outer loop of "Perform validators"
performOr(value, fieldName, validatorsOr, k, err, log) ==
    IF k > Len(validatorsOr) THEN Result(err, log)
    ELSE breakOr(value, fieldName, validatorsOr, k,
                 performAnd(value, fieldName, validatorsOr[k], 1, err, log))

\* "Perform validators": var err error, then the two loops
performValidators(value, fieldName, validatorsOr) ==
    performOr(value, fieldName, validatorsOr, 1, NoError, <<>>)

Call(value, fieldName, validators, ro) ==
    [value |-> value, fieldName |-> fieldName, validators |-> validators,
     ro |-> ro]

\* faulty variant of structCalls: the tag of an unexported field is not read
structCallsExported(value, ro) ==
    [i \in 1..Len(value.fields) |->
        Call(value.elems[i], value.fields[i].name,
             IF value.fields[i].exported THEN value.fields[i].tag ELSE <<>>,
             ro \/ ~value.fields[i].exported)]

\* faulty variant of structCalls: the value of an unexported field is as
\* readable as its struct
structCallsAddressable(value, ro) ==
    [i \in 1..Len(value.fields) |->
        Call(value.elems[i], value.fields[i].name, value.fields[i].tag, ro)]

\* the calls validateStruct makes, in order: each field with its own tag and
\* name; a value read through an unexported field is read-only
structCalls(value, ro) ==
    [i \in 1..Len(value.fields) |->
        Call(value.elems[i], value.fields[i].name, value.fields[i].tag,
             ro \/ ~value.fields[i].exported)]

\* faulty variant of elemCalls: every element is validated twice
elemCallsTwice(value, fieldName, validators, ro) ==
    [i \in 1..(2 * Len(value.elems)) |->
        Call(value.elems[(i + 1) \div 2], fieldName, validators, ro)]

\* the calls for the elements of a slice or array and for a pointee, each
\* with the validators given
elemCalls(value, fieldName, validators, ro) ==
    [i \in 1..Len(value.elems) |->
        Call(value.elems[i], fieldName, validators, ro)]

\* faulty variant of diveCalls: map keys get the remaining validators and
\* map values the key validators
diveCallsSwapped(value, fieldName, sp, ro) ==
    IF value.kind = "map"
    THEN [i \in 1..(2 * Len(value.keys)) |->
             IF i % 2 = 1
             THEN Call(value.keys[(i + 1) \div 2], fieldName,
                       sp.remaningValidators, ro)
             ELSE Call(value.elems[i \div 2], fieldName,
                       sp.keyValidators, ro)]
    ELSE IF value.kind \in {"slice", "array", "ptr"}
    THEN elemCalls(value, fieldName, sp.remaningValidators, ro)
    ELSE <<>>

\* faulty variant of diveCalls: map keys are not validated
diveCallsNoKeys(value, fieldName, sp, ro) ==
    IF value.kind \in {"map", "slice", "array", "ptr"}
    THEN elemCalls(value, fieldName, sp.remaningValidators, ro)
    ELSE <<>>

\* faulty variant of diveCalls: without remaining validators the children
\* are validated against the validators of their parent
diveCallsInherit(value, fieldName, sp, ro) ==
    IF value.kind \in {"slice", "array", "ptr"}
    THEN elemCalls(value, fieldName,
                   IF sp.remaningValidators = <<>> THEN sp.valValidators
                   ELSE sp.remaningValidators, ro)
    ELSE <<>>

\* faulty variant of diveCalls: only the first entry of a map is validated
diveCallsFirstEntry(value, fieldName, sp, ro) ==
    CASE value.kind = "map" ->
           IF value.keys = <<>> THEN <<>>
           ELSE <<Call(value.keys[1], fieldName, sp.keyValidators, ro),
                  Call(value.elems[1], fieldName, sp.remaningValidators, ro)>>
      [] value.kind \in {"slice", "array"} ->
           elemCalls(value, fieldName, sp.remaningValidators, ro)
      [] value.kind = "ptr" ->
           IF ValueIsNil(value) THEN <<>>
           ELSE elemCalls(value, fieldName, sp.remaningValidators, ro)
      [] OTHER -> <<>>

\* the calls the switch of validateField makes for a map, a slice or array
\* and a pointer, in order; sp is what splitValidators returned
diveCalls(value, fieldName, sp, ro) ==
    CASE value.kind = "map" ->
           [i \in 1..(2 * Len(value.keys)) |->
               IF i % 2 = 1
               THEN Call(value.keys[(i + 1) \div 2], fieldName,
                         sp.keyValidators, ro)
               ELSE Call(value.elems[i \div 2], fieldName,
                         sp.remaningValidators, ro)]
      [] value.kind \in {"slice", "array"} ->
           elemCalls(value, fieldName, sp.remaningValidators, ro)
      [] value.kind = "ptr" ->
           IF ValueIsNil(value) THEN <<>>
           ELSE elemCalls(value, fieldName, sp.remaningValidators, ro)
      [] OTHER -> <<>>

RECURSIVE validateField(_, _, _, _)
RECURSIVE runCalls(_, _, _)

\* faulty variant of returnOnError: the calls after a failing one are still
\* made, and the first error is returned at the end
returnOnErrorVisitAll(calls, i, log, r) ==
    IF IsErr(r.err)
    THEN Result(r.err, (log \o r.log) \o runCalls(calls, i + 1, <<>>).log)
    ELSE runCalls(calls, i + 1, log \o r.log)

\* "if err := validateField(...); err != nil { return err }" inside a loop:
\* r is what the call returned
returnOnError(calls, i, log, r) ==
    IF IsErr(r.err) THEN Result(r.err, log \o r.log)
    ELSE runCalls(calls, i + 1, log \o r.log)

\* the calls of a loop, each returning at once on an error
runCalls(calls, i, log) ==
    IF i > Len(calls) THEN Result(NoError, log)
    ELSE returnOnError(calls, i, log,
                       validateField(calls[i].value, calls[i].fieldName,
                                     calls[i].validators, calls[i].ro))

\* validateStruct
validateStruct(value, ro) == runCalls(structCalls(value, ro), 1, <<>>)

\* faulty variant of diveField: key validators on a value that is not a map,
\* or remaining validators on a scalar, are a syntax error
diveFieldStrict(value, fieldName, sp, ro) ==
    IF \/ sp.keyValidators # <<>> /\ value.kind # "map"
       \/ sp.remaningValidators # <<>>
            /\ value.kind \in {"int", "uint", "string", "bool"}
    THEN Result(ErrorSyntax, <<>>)
    ELSE IF value.kind = "struct" THEN validateStruct(value, ro)
    ELSE runCalls(diveCalls(value, fieldName, sp, ro), 1, <<>>)

\* "Dive one level deep into arrays and pointers": the switch on kind
diveField(value, fieldName, sp, ro) ==
    IF value.kind = "struct" THEN validateStruct(value, ro)
    ELSE runCalls(diveCalls(value, fieldName, sp, ro), 1, <<>>)

\* the return statements of validateField, in order: after the custom
\* validator, after the validators, inside the switch, and the last one
returnField(visit, custom, rules, dive) ==
    IF IsErr(custom.err)
    THEN Returned(custom.err, visit \o custom.log, "custom")
    ELSE IF IsErr(rules.err)
    THEN Returned(rules.err, visit \o custom.log \o rules.log, "rules")
    ELSE Returned(dive.err,
                  visit \o custom.log \o rules.log \o dive.log,
                  IF IsErr(dive.err) THEN "dive" ELSE "end")

\* the body of validateField after splitValidators returned sp
validateSplit(value, fieldName, validators, ro, sp) ==
    returnField(<<LogEntry("visit", value, fieldName, <<>>, validators)>>,
                customValidatorStep(value, fieldName, ro),
                performValidators(value, fieldName,
                                  parseValidators(sp.valValidators)),
                diveField(value, fieldName, sp, ro))

\* validateField
validateField(value, fieldName, validators, ro) ==
    validateSplit(value, fieldName, validators, ro,
                  splitValidators(validators))

\* faulty variant of Validate: anything but a struct or a pointer to a struct
\* is a syntax error
ValidateStructOnly(element) ==
    IF \/ element.kind = "struct"
       \/ element.kind = "ptr" /\ ~ValueIsNil(element)
            /\ element.elems[1].kind = "struct"
    THEN validateField(element, "", <<>>, FALSE)
    ELSE Returned(ErrorSyntax, <<>>, "end")

\* Validate
Validate(element) == validateField(element, "", <<>>, FALSE)

\* ------------------------------------------------------------------------
\* Inputs
\* ------------------------------------------------------------------------

\* bounds of the inputs
MaxInt == 5
MaxFrags == 3

\* validator expressions, as written in struct tags
ExprGte0 == <<"g", "t", "e", "=", "0">>
ExprLte1 == <<"l", "t", "e", "=", "1">>
ExprGte3 == <<"g", "t", "e", "=", "3">>
ExprLte4 == <<"l", "t", "e", "=", "4">>
ExprBla == <<"b", "l", "a">>
ExprEq2 == <<"e", "q", "=", "2">>
ExprNe0 == <<"n", "e", "=", "0">>
ExprGt0 == <<"g", "t", "=", "0">>
ExprLt1 == <<"l", "t", "=", "1">>
ExprEmptyFalse == <<"e", "m", "p", "t", "y", "=", "f", "a", "l", "s", "e">>
ExprEmptyTrue == <<"e", "m", "p", "t", "y", "=", "t", "r", "u", "e">>
ExprNilFalse == <<"n", "i", "l", "=", "f", "a", "l", "s", "e">>
ExprNilTrue == <<"n", "i", "l", "=", "t", "r", "u", "e">>
ExprOneOf == <<"o", "n", "e", "_", "o", "f", "=", "1", ",", "3">>
ExprOneOfSpaced ==
    <<" ", "o", "n", "e", "_", "o", "f", " ", "=", " ", "1", " ", ",",
      " ", "3", " ">>
ExprFormatAlpha ==
    <<"f", "o", "r", "m", "a", "t", "=", "a", "l", "p", "h", "a">>
ExprSpaced ==
    <<" ", "g", "t", "e", " ", "=", " ", "0", " ", "&", " ", "l", "t",
      "e", " ", "=", " ", "4", " ", "&", " ", "b", "l", "a", " ", "=",
      " ">>
ExprAndOr ==
    <<"g", "t", "e", "=", "0", " ", "&", " ", "l", "t", "e", "=", "1",
      " ", "|", " ", "g", "t", "e", "=", "3", " ", "&", " ", "l", "t",
      "e", "=", "4">>
ExprSeqLen ==
    <<"g", "t", "e", "=", "1", " ", "&", " ", "l", "t", "e", "=", "2",
      " ", "|", " ", "e", "q", "=", "4">>
ExprGarbage == <<"1", "2", "=", "!", "@", "&", "*", "(", ")">>
ExprBadInt == <<"g", "t", "e", "=", "x">>
ExprBadIntEmpty == <<"g", "t", "e", "=">>
ExprBadSign == <<"l", "t", "e", "=", "-">>
ExprBadBool == <<"e", "m", "p", "t", "y", "=", "m", "a", "y", "b", "e">>
ExprBadNil == <<"n", "i", "l", "=", "2">>
ExprBadTokens == <<"o", "n", "e", "_", "o", "f", "=", "a", ",", "b">>
ExprNoTokens == <<"o", "n", "e", "_", "o", "f", "=">>
ExprBadFormat == <<"f", "o", "r", "m", "a", "t", "=", "b", "l", "a">>
ExprTwoEq == <<"g", "t", "e", "=", "0", "=", "1">>
ExprDiveGte0 == <<">", "g", "t", "e", "=", "0">>
ExprDiveLte1 == <<">", " ", "l", "t", "e", "=", "1">>
ExprDiveNilFalse == <<">", "n", "i", "l", "=", "f", "a", "l", "s", "e">>
ExprDiveEmptyFalse ==
    <<">", "e", "m", "p", "t", "y", "=", "f", "a", "l", "s", "e">>
ExprDiveOnly == <<">">>
ExprKeyGte0 == <<"[", "g", "t", "e", "=", "0", "]">>
ExprKeyEmptyFalse ==
    <<"[", "e", "m", "p", "t", "y", "=", "f", "a", "l", "s", "e", "]",
      " ", ">", " ", "g", "t", "e", "=", "0">>
ExprKeyVal ==
    <<"[", "g", "t", "e", "=", "0", "]", " ", ">", " ", "l", "t", "e",
      "=", "4">>
ExprMapAll ==
    <<"g", "t", "e", "=", "2", " ", "[", "g", "t", "e", "=", "0", "]",
      " ", ">", " ", "l", "t", "e", "=", "4">>
ExprKeyDive ==
    <<"[", "n", "i", "l", "=", "f", "a", "l", "s", "e", " ", ">", " ",
      "e", "m", "p", "t", "y", "=", "t", "r", "u", "e", "]", " ", ">",
      " ", "n", "i", "l", "=", "f", "a", "l", "s", "e", " ", ">", " ",
      "g", "t", "e", "=", "0">>
ExprSliceAlpha ==
    <<"e", "m", "p", "t", "y", "=", "f", "a", "l", "s", "e", " ", ">",
      " ", "f", "o", "r", "m", "a", "t", "=", "a", "l", "p", "h", "a">>
ExprDeep ==
    <<"e", "m", "p", "t", "y", "=", "f", "a", "l", "s", "e", " ", ">",
      " ", "e", "m", "p", "t", "y", "=", "f", "a", "l", "s", "e", " ",
      "[", "n", "i", "l", "=", "f", "a", "l", "s", "e", " ", ">", " ",
      "e", "m", "p", "t", "y", "=", "t", "r", "u", "e", "]", " ", ">",
      " ", "n", "i", "l", "=", "f", "a", "l", "s", "e", " ", ">", " ",
      "g", "t", "e", "=", "0">>
ExprDeepStruct ==
    <<"e", "m", "p", "t", "y", "=", "f", "a", "l", "s", "e", " ", ">",
      " ", "e", "m", "p", "t", "y", "=", "f", "a", "l", "s", "e", " ",
      "[", "n", "i", "l", "=", "f", "a", "l", "s", "e", " ", ">", " ",
      "e", "m", "p", "t", "y", "=", "t", "r", "u", "e", "]", " ", ">",
      " ", "n", "i", "l", "=", "f", "a", "l", "s", "e">>
ExprTwoDives == <<">", " ", ">", " ", "g", "t", "e", "=", "0">>
ExprTwoGroups ==
    <<"[", "g", "t", "e", "=", "0", "]", " ", "[", "l", "t", "e", "=",
      "4", "]">>
ExprUnclosed == <<"[", "g", "t", "e", "=", "0">>
ExprStray == <<"g", "t", "e", "=", "0", "]">>

Amp == <<"&">>
Bar == <<"|">>

\* one-rule expressions combined with & and |
RuleAtoms == {ExprGte0, ExprLte1, ExprGte3, ExprLte4, ExprBla}

RuleExprs ==
    RuleAtoms
    \cup {a \o Amp \o b : a \in RuleAtoms, b \in RuleAtoms}
    \cup {a \o Bar \o b : a \in RuleAtoms, b \in RuleAtoms}
    \cup {a \o Amp \o b \o Bar \o c :
              a \in RuleAtoms, b \in RuleAtoms, c \in RuleAtoms}
    \cup {a \o Bar \o b \o Amp \o c :
              a \in RuleAtoms, b \in RuleAtoms, c \in RuleAtoms}
    \cup {<<>>, ExprAndOr, ExprSeqLen, ExprSpaced, ExprGarbage, ExprEq2,
          ExprNe0, ExprGt0, ExprLt1, ExprOneOf, ExprOneOfSpaced}

\* expressions whose parameter does not parse for some or every kind
ParamExprs ==
    {ExprBadInt, ExprBadIntEmpty, ExprBadSign, ExprBadBool, ExprBadNil,
     ExprBadTokens, ExprNoTokens, ExprBadFormat, ExprTwoEq, ExprEmptyFalse,
     ExprEmptyTrue, ExprNilFalse, ExprNilTrue, ExprFormatAlpha, ExprOneOf,
     ExprGte0, ExprLte1}

\* expressions with empty entries, blanks and blanks inside a value
ExprEmptyEntries == <<"&", "|", "&", ",", "&">>
ExprBlank == <<" ", " ">>
ExprInner ==
    <<" ", "v", "a", "l", " ", "=", " ", "b", " ", ",", " ", "c", " ", "|",
      " ", "|", " ", "x", " ">>
ParseExprs == {ExprEmptyEntries, ExprBlank, ExprInner}

\* expressions with key validators and dive operators
DiveExprs ==
    {<<>>, ExprGte0, ExprLte1, ExprDiveGte0, ExprDiveLte1, ExprDiveNilFalse,
     ExprDiveEmptyFalse, ExprDiveOnly, ExprKeyGte0, ExprKeyEmptyFalse,
     ExprKeyVal, ExprMapAll, ExprKeyDive, ExprSliceAlpha, ExprDeep,
     ExprDeepStruct, ExprTwoDives, ExprTwoGroups, ExprUnclosed, ExprStray,
     ExprSeqLen}

\* every string of at most MaxFrags fragments
BracketFrags == {<<"[">>, <<"]">>, <<">">>, ExprGte0}

RECURSIVE FragStrings(_)
FragStrings(k) ==
    IF k = 0 THEN {<<>>}
    ELSE LET shorter == FragStrings(k - 1)
         IN  shorter \cup {s \o f : s \in shorter, f \in BracketFrags}

BracketExprs == FragStrings(MaxFrags)

\* values
Ints == {IntV(n) : n \in -1..MaxInt}

StrEmpty == StrV(<<>>)
StrSpace == StrV(<<" ">>)
StrAb == StrV(<<"a", "b">>)
Str1c == StrV(<<"1", "c">>)
Strs == {StrEmpty, StrSpace, StrAb, Str1c}

SmallInts == {IntV(-1), IntV(0), IntV(MaxInt)}

Ptrs == {NilPtr, PtrV(StrEmpty), PtrV(PtrV(IntV(0)))}
        \cup {PtrV(v) : v \in SmallInts}

Slices == {SliceV(<<>>), SliceV(<<StrAb, Str1c>>), SliceV(<<Str1c, StrAb>>),
           ArrayV(<<IntV(-1)>>), ArrayV(<<IntV(1), IntV(1), IntV(1)>>),
           SliceV(<<IntV(1), IntV(1), IntV(1), IntV(1)>>)}
          \cup {SliceV(<<v>>) : v \in SmallInts}
          \cup {SliceV(<<v, w>>) : v \in SmallInts, w \in SmallInts}

\* maps, with their entries in every order MapKeys can return them
Maps == {MapV(<<>>, <<>>), MapV(<<StrEmpty>>, <<IntV(1)>>),
         MapV(<<StrAb>>, <<IntV(-1)>>),
         MapV(<<PtrV(StrEmpty)>>, <<PtrV(IntV(0))>>),
         MapV(<<NilPtr>>, <<PtrV(IntV(0))>>)}
        \cup {MapV(<<k>>, <<v>>) : k \in SmallInts, v \in SmallInts}
        \cup {MapV(<<IntV(k[1]), IntV(k[2])>>, <<v1, v2>>) :
                  k \in {<<-1, 0>>, <<0, -1>>, <<0, 1>>, <<1, 0>>},
                  v1 \in {IntV(0), IntV(MaxInt)}, v2 \in {IntV(0), IntV(MaxInt)}}

\* struct{ field int `validate:"gte=0"` }
SubStr(n) == StructV(<<Field("field", ExprGte0, FALSE)>>, <<IntV(n)>>)

\* struct{ field int; anotherField int `validate:"eq=0"` } with a
\* Validate() method that fails when field <= 0
StCustomValidator(receiver, field, anotherField) ==
    WithValidate(StructV(<<Field("field", <<>>, FALSE),
                           Field("anotherField", <<"e", "q", "=", "0">>, FALSE)>>,
                         <<IntV(field), IntV(anotherField)>>),
                 receiver, field <= 0)

\* (*StCustomValidator)(nil) and (*StCustomValidator2)(nil)
NilCustomValidator(receiver) == WithValidate(NilPtr, receiver, FALSE)

Structs == {SubStr(0), SubStr(-1),
            NilCustomValidator("value"), NilCustomValidator("pointer"),
            StructV(<<Field("P", <<>>, TRUE)>>, <<NilCustomValidator("value")>>),
            StructV(<<>>, <<>>),
            StructV(<<Field("a", <<>>, FALSE), Field("b", ExprLte1, TRUE)>>,
                    <<IntV(0), IntV(MaxInt)>>),
            StructV(<<Field("a", ExprGte0, TRUE), Field("b", ExprLte1, FALSE)>>,
                    <<IntV(-1), IntV(MaxInt)>>),
            StCustomValidator("value", 1, 0), StCustomValidator("value", 0, 0),
            StCustomValidator("value", 1, 1),
            StCustomValidator("pointer", 1, 0), StCustomValidator("pointer", 0, 0),
            PtrV(StCustomValidator("pointer", 0, 0)),
            PtrV(StCustomValidator("value", 0, 0)),
            PtrV(SubStr(-1)), SliceV(<<SubStr(0), SubStr(-1)>>)}

Deeps == {SliceV(<<MapV(<<PtrV(StrEmpty)>>, <<PtrV(IntV(0))>>)>>),
          SliceV(<<MapV(<<PtrV(StrEmpty)>>, <<PtrV(IntV(-1))>>)>>),
          SliceV(<<MapV(<<PtrV(StrEmpty)>>, <<NilPtr>>)>>),
          SliceV(<<MapV(<<PtrV(StrSpace)>>, <<PtrV(IntV(0))>>)>>),
          SliceV(<<MapV(<<NilPtr>>, <<PtrV(IntV(0))>>)>>),
          SliceV(<<MapV(<<>>, <<>>)>>),
          SliceV(<<MapV(<<PtrV(StrEmpty)>>, <<PtrV(SubStr(0))>>)>>),
          SliceV(<<MapV(<<PtrV(StrEmpty)>>, <<PtrV(SubStr(-1))>>)>>)}

Scalars == Ints \cup Strs \cup {UintV(0), UintV(2), BoolV(TRUE)}

RuleValues == Ints \cup {UintV(2), StrAb, NilPtr,
                         ArrayV(<<IntV(1), IntV(1), IntV(1)>>)}

Values == Scalars \cup Ptrs \cup Slices \cup Maps \cup Structs \cup Deeps

BracketValues == {IntV(-1), IntV(1), SliceV(<<IntV(-1)>>),
                  MapV(<<IntV(-1)>>, <<IntV(-1)>>)}

\* the (value, expression) pairs validated
Cases ==
    (RuleValues \X RuleExprs)
    \cup (Values \X (DiveExprs \cup ParamExprs))
    \cup (BracketValues \X BracketExprs)
    \cup ({IntV(1)} \X ParseExprs)

\* ------------------------------------------------------------------------
\* The state machine: one call of each function on a chosen input
\* ------------------------------------------------------------------------

VARIABLES
    value,        \* the value validated
    validators,   \* the expression it is validated against
    pc,           \* "input", then the name of the function called
    split,        \* what splitValidators(validators) returned
    parsed,       \* what parseValidators(validators) returned
    result,       \* what validateField(value, NodeName, validators) returned
    element,      \* the argument of Validate
    top,          \* what Validate(element) returned
    again,        \* what a second validateField on the same value returned
    named,        \* the name given to setFieldName and what it returned
    procs         \* the concurrent calls of Validate, one record each

vars == <<value, validators, pc, split, parsed, result, element, top, again,
          named, procs>>

NoSplit == splitValidators(<<>>)

\* faulty variant of setFieldName: a name already set is kept
setFieldNameIfEmpty(err, fieldName) ==
    IF err.type \in {"validation", "syntax"} /\ err.fieldName = ""
    THEN [err EXCEPT !.fieldName = fieldName]
    ELSE err

\* setFieldName: the field name of an ErrorValidation or ErrorSyntax is set,
\* any other error is returned as it is
setFieldName(err, fieldName) ==
    IF err.type \in {"validation", "syntax"}
    THEN [err EXCEPT !.fieldName = fieldName]
    ELSE err

\* before setFieldName is called
NoNamed == [fieldName |-> "", in |-> NoError, out |-> NoError]

\* the goroutines calling Validate
Procs == {1, 2}

\* no concurrent call
NoProcs ==
    [p \in Procs |->
        [value |-> Invalid, validators |-> <<>>, pc |-> "none",
         validatorTypeMap |-> {}, res |-> Returned(NoError, <<>>, "end")]]

\* the permutations of 1..n
Perms(n) ==
    {f \in [1..n -> 1..n] : \A i \in 1..n : \A j \in 1..n : f[i] = f[j] => i = j}

\* value.MapKeys(): the keys of a map come in an unspecified order, which
\* may differ from one call to the next
MapKeysOrders(v) ==
    IF v.kind = "map"
    THEN {[v EXCEPT !.keys = [i \in 1..Len(v.keys) |-> v.keys[f[i]]],
                    !.elems = [i \in 1..Len(v.keys) |-> v.elems[f[i]]]] :
              f \in Perms(Len(v.keys))}
    ELSE {v}

Init ==
    /\ \E c \in Cases : value = c[1] /\ validators = c[2]
    /\ pc = "input"
    /\ split = NoSplit
    /\ parsed = <<>>
    /\ result = Returned(NoError, <<>>, "end")
    /\ element = Invalid
    /\ top = Returned(NoError, <<>>, "end")
    /\ again = Returned(NoError, <<>>, "end")
    /\ named = NoNamed
    /\ procs = NoProcs

CallSplitValidators ==
    /\ pc = "input"
    /\ split' = splitValidators(validators)
    /\ pc' = "splitValidators"
    /\ UNCHANGED <<value, validators, parsed, result, element, top, again, named,
                   procs>>

CallParseValidators ==
    /\ pc = "input"
    /\ parsed' = parseValidators(validators)
    /\ pc' = "parseValidators"
    /\ UNCHANGED <<value, validators, split, result, element, top, again, named,
                   procs>>

\* the name of the struct field whose value and tag are validated
NodeName == "node"

\* validateField on the value read from an exported field
CallValidateField ==
    /\ pc = "input"
    /\ result' = validateField(value, NodeName, validators, FALSE)
    /\ pc' = "validateField"
    /\ UNCHANGED <<value, validators, split, parsed, element, top, again, named,
                   procs>>

\* struct{ field T `validate:"<validators>"` }{value}
FieldStruct(v, tag) == StructV(<<Field(NodeName, tag, FALSE)>>, <<v>>)

\* the arguments given to Validate: the value itself, a struct holding it in
\* a tagged field, and that struct inside pointers, slices, arrays, maps and
\* fields of other structs
Shapes == {"bare", "struct", "ptr", "slice", "array", "mapvalue", "mapkey",
           "substruct", "embedded", "deep", "remainder"}

Wrap(shape, v, tag) ==
    LET st == FieldStruct(v, tag)
    IN  CASE shape = "bare" -> v
          [] shape = "struct" -> st
          [] shape = "ptr" -> PtrV(st)
          [] shape = "slice" -> SliceV(<<SubStr(0), st>>)
          [] shape = "array" -> ArrayV(<<st>>)
          [] shape = "mapvalue" -> MapV(<<IntV(0)>>, <<st>>)
          [] shape = "mapkey" -> MapV(<<st>>, <<IntV(0)>>)
          [] shape = "substruct" ->
               StructV(<<Field("a", <<>>, FALSE)>>, <<st>>)
          [] shape = "embedded" ->
               StructV(<<Field("A", <<>>, TRUE), Field("b", ExprGte0, FALSE)>>,
                       <<st, IntV(0)>>)
          [] shape = "deep" ->
               StructV(<<Field("field", <<>>, FALSE)>>,
                       <<SliceV(<<MapV(<<PtrV(StrEmpty)>>, <<PtrV(st)>>)>>)>>)
          [] shape = "remainder" ->
               StructV(<<Field("outer", ExprDiveLte1, FALSE)>>, <<PtrV(st)>>)

CallValidate ==
    /\ pc = "input"
    /\ \E shape \in Shapes :
          /\ element' = Wrap(shape, value, validators)
          /\ top' = Validate(element')
    /\ pc' = "Validate"
    /\ UNCHANGED <<value, validators, split, parsed, result, again, named, procs>>

\* validateField once more on the same value and expression
CallValidateFieldAgain ==
    /\ pc = "validateField"
    /\ \E order \in MapKeysOrders(value) :
          again' = validateField(order, NodeName, validators, FALSE)
    /\ pc' = "validateFieldAgain"
    /\ UNCHANGED <<value, validators, split, parsed, result, element, top,
                   named, procs>>

\* the name an outer frame would give
OuterName == "outer"

\* setFieldName on the ErrorField that validateField or Validate returned
CallSetFieldName ==
    /\ pc \in {"validateField", "Validate"}
    /\ \E err \in {IF pc = "Validate" THEN top.err ELSE result.err} :
          /\ err.type \in {"validation", "syntax"}
          /\ \E fieldName \in {"", OuterName} :
                named' = [fieldName |-> fieldName, in |-> err,
                          out |-> setFieldName(err, fieldName)]
    /\ pc' = "setFieldName"
    /\ UNCHANGED <<value, validators, split, parsed, result, element, top,
                   again, procs>>

Next ==
    \/ CallSplitValidators
    \/ CallParseValidators
    \/ CallValidateField
    \/ CallValidate
    \/ CallValidateFieldAgain
    \/ CallSetFieldName

Spec == Init /\ [][Next]_vars

\* ------------------------------------------------------------------------
\* Concurrent calls: every goroutine calls Validate on a struct of its own
\* ------------------------------------------------------------------------

\* the (value, expression) pairs of the concurrent calls
ConcCases ==
    {IntV(-1), IntV(1), StrAb, SliceV(<<IntV(-1)>>)}
    \X {ExprGte0, ExprLte1, ExprEmptyFalse, ExprDiveGte0}

ConcInit ==
    /\ \E c \in [Procs -> ConcCases] :
          procs = [p \in Procs |->
                      [value |-> c[p][1], validators |-> c[p][2],
                       pc |-> "called", validatorTypeMap |-> {},
                       res |-> Returned(NoError, <<>>, "end")]]
    /\ value = Invalid
    /\ validators = <<>>
    /\ pc = "concurrent"
    /\ split = NoSplit
    /\ parsed = <<>>
    /\ result = Returned(NoError, <<>>, "end")
    /\ element = Invalid
    /\ top = Returned(NoError, <<>>, "end")
    /\ again = Returned(NoError, <<>>, "end")
    /\ named = NoNamed

\* "validatorTypeMap := getValidatorTypeMap()": the call builds a map of its
\* own
BuildValidatorTypeMap(p) ==
    /\ procs[p].pc = "called"
    /\ procs' = [procs EXCEPT ![p].pc = "built",
                              ![p].validatorTypeMap = getValidatorTypeMap]
    /\ UNCHANGED <<value, validators, pc, split, parsed, result, element, top,
                   again, named>>

\* faulty variant of procValidate: the call reads the argument of the first
\* goroutine
procValidateShared(p) ==
    Validate(FieldStruct(procs[1].value, procs[1].validators))

\* what the call of goroutine p computes from its own argument
procValidate(p) == Validate(FieldStruct(procs[p].value, procs[p].validators))

\* the rest of the call, to its return
ReturnValidate(p) ==
    /\ procs[p].pc = "built"
    /\ procs' = [procs EXCEPT ![p].pc = "returned", ![p].res = procValidate(p)]
    /\ UNCHANGED <<value, validators, pc, split, parsed, result, element, top,
                   again, named>>

ConcNext ==
    \E p \in Procs : BuildValidatorTypeMap(p) \/ ReturnValidate(p)

ConcSpec == ConcInit /\ [][ConcNext]_vars

\* ------------------------------------------------------------------------
\* Properties
\* ------------------------------------------------------------------------

\* the rule set validateField parses for the node
ParsedRules == parseValidators(splitValidators(validators).valValidators)

AllRegistered(validatorsOr) ==
    \A k \in 1..Len(validatorsOr) : \A j \in 1..Len(validatorsOr[k]) :
        validatorsOr[k][j].Type \in getValidatorTypeMap

AllUnregistered(validatorsOr) ==
    \A k \in 1..Len(validatorsOr) : \A j \in 1..Len(validatorsOr[k]) :
        validatorsOr[k][j].Type \notin getValidatorTypeMap

RuleSatisfied(v, rule) ==
    ~IsErr(validatorFunc(rule.Type, v, NodeName, rule.Value))

GroupSatisfied(v, validatorsAnd) ==
    \A j \in 1..Len(validatorsAnd) : RuleSatisfied(v, validatorsAnd[j])

LogOps(log, op) == {k \in 1..Len(log) : log[k].op = op}

\* C1: for a node whose rules are all registered, the rule stage of
\* validateField succeeds if and only if some '|' group has every one of
\* its '&' rules satisfied.
C1_OrOfAnd ==
    (/\ pc = "validateField"
     /\ result.stage # "custom"
     /\ ParsedRules # <<>>
     /\ AllRegistered(ParsedRules))
    => ((result.stage # "rules")
        <=> \E k \in 1..Len(ParsedRules) : GroupSatisfied(value, ParsedRules[k]))

\* the first group fails on its second rule, the second group succeeds
C1_Witness ==
    /\ pc = "validateField"
    /\ AllRegistered(ParsedRules)
    /\ Len(ParsedRules) = 2
    /\ Len(ParsedRules[1]) = 2
    /\ RuleSatisfied(value, ParsedRules[1][1])
    /\ ~RuleSatisfied(value, ParsedRules[1][2])
    /\ GroupSatisfied(value, ParsedRules[2])
    /\ ~IsErr(result.err)

RECURSIVE MinDepth(_, _, _)
\* the lowest bracket depth reached in s
MinDepth(s, depth, low) ==
    IF s = <<>> THEN low
    ELSE LET d == IF Head(s) = "[" THEN depth + 1
                  ELSE IF Head(s) = "]" THEN depth - 1 ELSE depth
         IN  MinDepth(Tail(s), d, IF d < low THEN d ELSE low)

RECURSIVE EndDepth(_, _)
EndDepth(s, depth) ==
    IF s = <<>> THEN depth
    ELSE EndDepth(Tail(s), IF Head(s) = "[" THEN depth + 1
                           ELSE IF Head(s) = "]" THEN depth - 1 ELSE depth)

\* a stray ']' or an unclosed '['
Unbalanced(s) == MinDepth(s, 0, 0) < 0 \/ EndDepth(s, 0) # 0

\* C2: an expression with unbalanced brackets makes validateField, and
\* Validate of a struct whose field carries it, return a SyntaxError
\* without evaluating any rule.
C2_UnbalancedIsSyntaxError ==
    /\ (pc = "validateField" /\ Unbalanced(validators))
          => (result.err.type = "syntax" /\ LogOps(result.log, "rule") = {})
    /\ (pc = "Validate" /\ element = FieldStruct(value, validators)
        /\ Unbalanced(validators))
          => (top.err.type = "syntax" /\ LogOps(top.log, "rule") = {})

\* C3 as stated: a rule with an unregistered name makes the node return a
\* SyntaxError.
C3_UnknownIsSyntaxError ==
    (/\ pc = "validateField"
     /\ result.stage # "custom"
     /\ ~AllRegistered(ParsedRules))
    => result.err.type = "syntax"

\* C3 (amended): a rule with an unregistered name is skipped: no validator
\* function is called for it, it never yields a SyntaxError, and a node
\* whose rules are all unregistered passes its rule stage.
C3_UnknownSkipped ==
    (pc = "validateField" /\ ~AllRegistered(ParsedRules))
    => /\ \A k \in LogOps(result.log, "rule") :
              result.log[k].validatorType \in getValidatorTypeMap
       /\ result.err.type # "syntax"
       /\ AllUnregistered(ParsedRules) => result.stage # "rules"

\* a node with only unregistered rules validates
C3_Witness ==
    /\ pc = "validateField"
    /\ ParsedRules # <<>>
    /\ AllUnregistered(ParsedRules)
    /\ ~IsErr(result.err)

\* the kinds each validator acts on (the kinds of its switch)
Supports(validatorType, kind) ==
    CASE validatorType \in {ValidatorEq, ValidatorNe, ValidatorGt,
                            ValidatorLt, ValidatorGte, ValidatorLte} ->
           kind \in {"int", "uint"} \cup LenKinds
      [] validatorType = ValidatorEmpty -> kind \in LenKinds
      [] validatorType = ValidatorNil -> kind = "ptr"
      [] validatorType = ValidatorOneOf -> kind \in {"int", "uint", "string"}
      [] validatorType = ValidatorFormat -> kind = "string"
      [] OTHER -> FALSE

\* the parameter has the form the validator requires for the kind
ParamParses(validatorType, kind, param) ==
    CASE validatorType \in {ValidatorEq, ValidatorNe, ValidatorGt,
                            ValidatorLt, ValidatorGte, ValidatorLte} ->
           IF kind = "int" THEN ParseInt(param).ok
           ELSE IF kind = "uint" THEN ParseUint(param).ok
           ELSE Atoi(param).ok
      [] validatorType \in {ValidatorEmpty, ValidatorNil} -> ParseBool(param).ok
      [] validatorType = ValidatorOneOf ->
           \A k \in 1..Len(parseTokens(param)) :
               IF kind = "int" THEN ParseInt(parseTokens(param)[k]).ok
               ELSE IF kind = "uint" THEN ParseUint(parseTokens(param)[k]).ok
               ELSE TRUE
      [] validatorType = ValidatorFormat -> param \in getFormatTypeMap
      [] OTHER -> FALSE

\* the node has one rule, registered and acting on the kind of the value
OneSupportedRule ==
    /\ Len(ParsedRules) = 1
    /\ Len(ParsedRules[1]) = 1
    /\ Supports(ParsedRules[1][1].Type, value.kind)

\* C4 as stated: a registered rule on a value of a kind it supports returns
\* a SyntaxError when its parameter does not parse in the form that kind
\* requires.
C4_UnparsableIsSyntaxError ==
    (/\ pc = "validateField"
     /\ result.stage # "custom"
     /\ OneSupportedRule
     /\ ~ParamParses(ParsedRules[1][1].Type, value.kind,
                     ParsedRules[1][1].Value))
    => result.err.type = "syntax"

ScalarKinds == {"int", "uint", "string", "bool"}

\* what splitValidators returns for the expression of the node
NodeSplit == splitValidators(validators)

\* a key expression on a value that is not a map
KeyMismatch == NodeSplit.keyValidators # <<>> /\ value.kind # "map"

\* a remainder expression on a scalar
RemainderMismatch ==
    NodeSplit.remaningValidators # <<>> /\ value.kind \in ScalarKinds

\* C5 as stated: a key expression on a value that is not a map, or a
\* remainder expression on a scalar, makes validation of the node fail with
\* a SyntaxError.
C5_MismatchIsSyntaxError ==
    (pc = "validateField" /\ (KeyMismatch \/ RemainderMismatch))
    => result.err.type = "syntax"

\* the entries of the node itself: the visit and its rule stage
NodeVisit == <<LogEntry("visit", value, NodeName, <<>>, validators)>>

NodeRules == performValidators(value, NodeName, ParsedRules)

\* C5 (amended): a key expression on a value that is not a map and a
\* remainder expression on a scalar are ignored: validation never returns a
\* SyntaxError for them, the result is the one obtained with the key
\* expression blanked, and a scalar does exactly its own rule stage.
C5_MismatchIgnored ==
    (pc = "validateField" /\ (KeyMismatch \/ RemainderMismatch))
    => /\ result.err.type # "syntax"
       /\ KeyMismatch =>
            result = validateSplit(value, NodeName, validators, FALSE,
                                   [NodeSplit EXCEPT !.keyValidators = <<>>])
       /\ value.kind \in ScalarKinds =>
            /\ result.err = NodeRules.err
            /\ result.log = NodeVisit \o NodeRules.log

\* -1 validates against '[gte=0] > lte=4': neither the key expression nor
\* the remainder expression is evaluated
C5_Witness ==
    /\ pc = "validateField"
    /\ value = IntV(-1)
    /\ NodeSplit.keyValidators = ExprGte0
    /\ NodeSplit.remaningValidators # <<>>
    /\ ~IsErr(result.err)

\* a struct or a non-nil pointer to a struct
IsRecord(v) ==
    \/ v.kind = "struct"
    \/ v.kind = "ptr" /\ ~ValueIsNil(v) /\ v.elems[1].kind = "struct"

RECURSIVE MapRouted(_, _, _)
\* for a map: each key with the key expression, then its value with the
\* remainder expression
MapRouted(v, sp, i) ==
    IF i > Len(v.keys) THEN <<>>
    ELSE <<[value |-> v.keys[i], validators |-> sp.keyValidators],
           [value |-> v.elems[i], validators |-> sp.remaningValidators]>>
         \o MapRouted(v, sp, i + 1)

\* the children of v and the sub-expression each is evaluated against
Routed(v, sp) ==
    IF v.kind = "map" THEN MapRouted(v, sp, 1)
    ELSE IF v.kind \in {"slice", "array"} \/ (v.kind = "ptr" /\ ~ValueIsNil(v))
    THEN [i \in 1..Len(v.elems) |->
             [value |-> v.elems[i], validators |-> sp.remaningValidators]]
    ELSE <<>>

RECURSIVE RoutedLog(_, _)
\* everything done when each child is evaluated against its sub-expression
RoutedLog(children, i) ==
    IF i > Len(children) THEN <<>>
    ELSE validateField(children[i].value, NodeName, children[i].validators,
                       FALSE).log
         \o RoutedLog(children, i + 1)

IsPrefix(s, t) == Len(s) <= Len(t) /\ s = SubSeq(t, 1, Len(s))

\* everything done for the node and its children when no child fails
NodeLog ==
    NodeVisit \o customValidatorStep(value, NodeName, FALSE).log
    \o NodeRules.log \o RoutedLog(Routed(value, NodeSplit), 1)

\* C7: once the rules of a map, slice, array or pointer have passed, its
\* children are evaluated in order, each against its sub-expression: map
\* keys against the key expression and map values against the remainder,
\* elements against the remainder, the pointee against the remainder if and
\* only if the pointer is not nil; the evaluation stops at the first error.
C7_Routing ==
    (/\ pc = "validateField"
     /\ value.kind \in {"map", "slice", "array", "ptr"}
     /\ result.stage \in {"dive", "end"})
    => /\ IsPrefix(result.log, NodeLog)
       /\ result.stage = "end" => result.log = NodeLog
       /\ (value.kind = "ptr" /\ ValueIsNil(value)) =>
            LogOps(result.log, "visit") = {1}

\* a map with a pointer key validated against
\* '[nil=false > empty=true] > nil=false > gte=0': the pointee of the key
\* is checked by empty=true, the pointee of the value by gte=0
C7_Witness ==
    /\ pc = "validateField"
    /\ value.kind = "map"
    /\ validators = ExprKeyDive
    /\ Len(value.keys) = 1
    /\ value.keys[1] = PtrV(StrEmpty)
    /\ result.stage = "end"
    /\ \E k \in LogOps(result.log, "rule") :
           /\ result.log[k].value = StrEmpty
           /\ result.log[k].validatorType = ValidatorEmpty
    /\ \E k \in LogOps(result.log, "rule") :
           /\ result.log[k].value = IntV(0)
           /\ result.log[k].validatorType = ValidatorGte

\* the keys of the map that violate the key expression
ViolatingKeys ==
    {i \in 1..Len(value.keys) :
        IsErr(validateField(value.keys[i], NodeName, NodeSplit.keyValidators,
                            FALSE).err)}

\* the values of the map that violate the remainder expression
ViolatingElems ==
    {i \in 1..Len(value.elems) :
        IsErr(validateField(value.elems[i], NodeName,
                            NodeSplit.remaningValidators, FALSE).err)}

\* C8: for a map whose own rules pass and whose values all satisfy the
\* remainder expression, a key that violates the key expression makes
\* validation fail with the ValidationError of a violating key, whose
\* value is that key.
C8_KeyViolation ==
    (/\ pc = "validateField"
     /\ value.kind = "map"
     /\ result.stage \notin {"custom", "rules"}
     /\ ViolatingElems = {}
     /\ ViolatingKeys # {})
    => /\ result.err.type = "validation"
       /\ \E i \in ViolatingKeys :
              /\ result.err = validateField(value.keys[i], NodeName,
                                            NodeSplit.keyValidators, FALSE).err
              /\ result.err.fieldValue = value.keys[i]

\* map[int]int{0: 0, -1: 5} with '[gte=0]' fails on the key -1
C8_Witness ==
    /\ pc = "validateField"
    /\ value.kind = "map"
    /\ value.keys = <<IntV(0), IntV(-1)>>
    /\ value.elems = <<IntV(0), IntV(MaxInt)>>
    /\ validators = ExprKeyGte0
    /\ result.err.type = "validation"
    /\ result.err.fieldValue = IntV(-1)

RECURSIVE ContainsStruct(_)
\* v is a struct or holds one
ContainsStruct(v) ==
    \/ v.kind = "struct"
    \/ \E i \in 1..Len(v.elems) : ContainsStruct(v.elems[i])
    \/ \E i \in 1..Len(v.keys) : ContainsStruct(v.keys[i])

\* the rule entries of a log
RuleEntries(log) == SelectSeq(log, LAMBDA e : e.op = "rule")

\* C9: without key and remainder expressions the rules of a node are
\* applied to the node only: every validator call made has the node as its
\* value, none has a child, and the calls made are exactly those of the
\* rule stage of the node.
C9_RulesStayOnNode ==
    (/\ pc = "validateField"
     /\ NodeSplit.keyValidators = <<>>
     /\ NodeSplit.remaningValidators = <<>>
     /\ ~ContainsStruct(value)
     /\ result.stage # "custom")
    => /\ \A k \in LogOps(result.log, "rule") : result.log[k].value = value
       /\ RuleEntries(result.log) = NodeRules.log

\* 'gte=0' on []int{-1} validates: the rule is checked on the slice
C9_Witness ==
    /\ pc = "validateField"
    /\ value = SliceV(<<IntV(-1)>>)
    /\ validators = ExprGte0
    /\ Len(RuleEntries(result.log)) = 1
    /\ ~IsErr(result.err)

\* the argument of Validate holds the struct whose field carries the
\* expression
HoldsFieldStruct ==
    \E shape \in Shapes \ {"bare"} : element = Wrap(shape, value, validators)

\* C10: wherever the struct is (at the top, behind a pointer, in a slice,
\* an array, a map as key or value, in a field or an embedded field of
\* another struct, below a field with a remainder expression), Validate
\* returns an error exactly when its unexported field violates the field's
\* own expression.
C10_OwnExpression ==
    (pc = "Validate" /\ HoldsFieldStruct)
    => (IsErr(top.err)
        <=> IsErr(validateField(value, NodeName, validators, TRUE).err))

\* the field of a struct inside a pointer, inside a map, inside a slice,
\* inside an untagged field, violates its expression
C10_Witness ==
    /\ pc = "Validate"
    /\ element = Wrap("deep", value, validators)
    /\ top.err.type = "validation"
    /\ top.err.fieldName = NodeName
    /\ top.err.fieldValue = value

\* C11: at a node whose value has a Validate() method and is not a nil
\* pointer the method is called first; its error is returned as it is, with
\* no rule evaluated and no child visited; when it returns nil the rules of
\* the node are evaluated and, once they pass, its children are visited.
C11_CustomFirst ==
    (pc = "validateField" /\ implementsCustomValidator(value)
     /\ ~(value.kind = "ptr" /\ ValueIsNil(value)))
    => /\ Len(result.log) >= 2
       /\ result.log[2] = LogEntry("custom", value, NodeName, <<>>, <<>>)
       /\ IsErr(callCustomValidator(value)) =>
            /\ result.err = callCustomValidator(value)
            /\ result.err.type = "custom"
            /\ Len(result.log) = 2
       /\ ~IsErr(callCustomValidator(value)) =>
            /\ SubSeq(result.log, 3, 2 + Len(NodeRules.log)) = NodeRules.log
            /\ (result.stage # "rules" /\ value.elems # <<>>) =>
                 \E k \in LogOps(result.log, "visit") :
                     result.log[k].value = value.elems[1]

\* a struct whose Validate() passes and whose field violates 'eq=0'
C11_Witness ==
    /\ pc = "validateField"
    /\ value = StCustomValidator("value", 1, 1)
    /\ result.log[2].op = "custom"
    /\ result.err.type = "validation"
    /\ result.err.fieldName = "anotherField"

\* C12 as stated: a value with a failing Validate() method, read from an
\* unexported struct field, makes Validate return an error.
C12_UnexportedCustomFails ==
    (/\ pc = "Validate"
     /\ HoldsFieldStruct
     /\ implementsCustomValidator(value)
     /\ IsErr(callCustomValidator(value)))
    => IsErr(top.err)

\* C12 (amended): the Validate() method of a value read from an unexported
\* struct field, or of anything below it, is never called: no method call
\* is made and the error of a method is never returned.
C12_UnexportedCustomSkipped ==
    (pc = "Validate" /\ HoldsFieldStruct)
    => /\ LogOps(top.log, "custom") = {}
       /\ top.err.type \notin {"custom", "panic"}

\* struct{ field StCustomValidator }{field: StCustomValidator{field: 0}}
\* validates although the method of the field returns an error
C12_Witness ==
    /\ pc = "Validate"
    /\ element = Wrap("struct", value, validators)
    /\ value = StCustomValidator("value", 0, 0)
    /\ IsErr(callCustomValidator(value))
    /\ ~IsErr(top.err)

\* the Validate() method of v, a struct or a non-nil pointer to one,
\* returns an error
MethodFails(v) == IF v.kind = "ptr" THEN v.elems[1].cvFails ELSE v.cvFails

\* C13 as stated: a struct whose Validate() method has a pointer receiver,
\* given to Validate by value or by pointer, makes Validate return an error
\* when the method returns one.
C13_PointerReceiverCalled ==
    (/\ pc = "Validate"
     /\ element = value
     /\ value.cv = "pointer"
     /\ value.kind = "struct" \/ (value.kind = "ptr" /\ ~ValueIsNil(value))
     /\ MethodFails(value))
    => IsErr(top.err)

\* a node of the walk: a value and the name of the nearest struct field
\* around it
Node(v, name) == [value |-> v, fieldName |-> name]

\* the children of v, left to right: struct fields in declaration order
\* under their own names, elements by increasing index, each map key just
\* before its value
Children(v, name) ==
    IF v.kind = "struct"
    THEN [i \in 1..Len(v.elems) |-> Node(v.elems[i], v.fields[i].name)]
    ELSE IF v.kind = "map"
    THEN [i \in 1..(2 * Len(v.keys)) |->
             IF i % 2 = 1 THEN Node(v.keys[(i + 1) \div 2], name)
             ELSE Node(v.elems[i \div 2], name)]
    ELSE [i \in 1..Len(v.elems) |-> Node(v.elems[i], name)]

RECURSIVE PreOrder(_, _)
RECURSIVE PreOrderAll(_, _)
\* the nodes below the children from the i-th on, depth first
PreOrderAll(children, i) ==
    IF i > Len(children) THEN <<>>
    ELSE PreOrder(children[i].value, children[i].fieldName)
         \o PreOrderAll(children, i + 1)

\* the depth-first, left-to-right walk of v
PreOrder(v, name) == <<Node(v, name)>> \o PreOrderAll(Children(v, name), 1)

\* the nodes visited, in the order of the log
Visited(log) ==
    [k \in 1..Len(SelectSeq(log, LAMBDA e : e.op = "visit")) |->
        Node(SelectSeq(log, LAMBDA e : e.op = "visit")[k].value,
             SelectSeq(log, LAMBDA e : e.op = "visit")[k].fieldName)]

\* what the call recorded by a log entry returns
EntryError(e) ==
    IF e.op = "custom" THEN callCustomValidator(e.value)
    ELSE validatorFunc(e.validatorType, e.value, e.fieldName, e.param)

\* C14: the nodes are visited in depth-first, left-to-right order; at each
\* node the Validate() method comes first, then the rules, then the
\* children; the walk ends at the first error, which is the one returned:
\* the last thing done is the failing call, on the last node visited.
C14_FailFast ==
    (pc = "validateField")
    => /\ IsPrefix(Visited(result.log), PreOrder(value, NodeName))
       /\ ~IsErr(result.err) =>
            Visited(result.log) = PreOrder(value, NodeName)
       /\ \A k \in LogOps(result.log, "custom") :
              /\ result.log[k - 1].op = "visit"
              /\ result.log[k - 1].value = result.log[k].value
       /\ \A k \in LogOps(result.log, "rule") :
              /\ result.log[k - 1].value = result.log[k].value
       /\ IsErr(result.err) =>
            /\ result.log[Len(result.log)].op \in {"custom", "rule"}
            /\ result.log[Len(result.log)].value
                 = Visited(result.log)[Len(Visited(result.log))].value
            /\ result.err = EntryError(result.log[Len(result.log)])

\* []string{"ab", "1c"} with 'empty=false > format=alpha' fails on the
\* second element
C14_Witness ==
    /\ pc = "validateField"
    /\ value = SliceV(<<StrAb, Str1c>>)
    /\ validators = ExprSliceAlpha
    /\ Len(Visited(result.log)) = 3
    /\ result.err.type = "validation"
    /\ result.err.validatorType = ValidatorFormat
    /\ result.err.fieldValue = Str1c

RECURSIVE Size(_)
RECURSIVE SizeAll(_, _)
SizeAll(vs, i) == IF i > Len(vs) THEN 0 ELSE Size(vs[i]) + SizeAll(vs, i + 1)

\* the number of values in v: v itself, its keys, elements, fields, pointee
Size(v) == 1 + SizeAll(v.keys, 1) + SizeAll(v.elems, 1)

RECURSIVE Depth(_)
RECURSIVE DepthAll(_, _)
DepthAll(vs, i) ==
    IF i > Len(vs) THEN 0
    ELSE IF Depth(vs[i]) > DepthAll(vs, i + 1) THEN Depth(vs[i])
    ELSE DepthAll(vs, i + 1)

\* the nesting depth of v
Depth(v) ==
    1 + (IF DepthAll(v.keys, 1) > DepthAll(v.elems, 1)
         THEN DepthAll(v.keys, 1) ELSE DepthAll(v.elems, 1))

\* the recursive calls validateField makes on v
CallsOn(v) ==
    IF v.kind = "struct" THEN structCalls(v, FALSE)
    ELSE diveCalls(v, NodeName, NodeSplit, FALSE)

RECURSIVE CallDepth(_)
RECURSIVE CallDepthAll(_, _)
CallDepthAll(calls, i) ==
    IF i > Len(calls) THEN 0
    ELSE IF CallDepth(calls[i].value) > CallDepthAll(calls, i + 1)
    THEN CallDepth(calls[i].value)
    ELSE CallDepthAll(calls, i + 1)

\* the depth of the recursion of validateField on v
CallDepth(v) == 1 + CallDepthAll(CallsOn(v), 1)

\* C15: validateField returns; at every node of the value each recursive
\* call is made on a strictly smaller value, the recursion is no deeper
\* than the value is nested, and no more nodes are visited than the value
\* has.
C15_Terminates ==
    (pc = "validateField")
    => /\ \A k \in 1..Len(PreOrder(value, NodeName)) :
              \A c \in 1..Len(CallsOn(PreOrder(value, NodeName)[k].value)) :
                  Size(CallsOn(PreOrder(value, NodeName)[k].value)[c].value)
                    < Size(PreOrder(value, NodeName)[k].value)
       /\ CallDepth(value) <= Depth(value)
       /\ Len(Visited(result.log)) <= Size(value)

\* a slice of a map of pointers, four levels deep, walked to the end
C15_Witness ==
    /\ pc = "validateField"
    /\ Depth(value) >= 4
    /\ CallDepth(value) = Depth(value)
    /\ Len(Visited(result.log)) = Size(value)
    /\ ~IsErr(result.err)

\* the same error: the same kind, field, rule and parameter, and the same
\* offending value (a map is the same map in whatever order its keys come)
SameError(e, f) ==
    /\ e.type = f.type
    /\ e.fieldName = f.fieldName
    /\ e.validatorType = f.validatorType
    /\ e.validatorValue = f.validatorValue
    /\ e.fieldValue \in MapKeysOrders(f.fieldValue)

\* C16 as stated: validating the same value against the same expression a
\* second time returns the same outcome: nil both times, or the same error
\* with the same kind, rule, parameter and offending value.
C16_SameOutcomeTwice ==
    (pc = "validateFieldAgain") => SameError(again.err, result.err)

C18_LengthThreeValidates ==
    (/\ pc = "validateField"
     /\ validators = ExprSeqLen
     /\ value.kind \in {"slice", "array"}
     /\ Len(value.elems) = 3)
    => ~IsErr(result.err)

\* C18 (amended): 'gte=1 & lte=2 | eq=4' on a sequence whose elements hold
\* no struct validates exactly when its length is 1, 2 or 4; on a sequence
\* of length 3 the first group fails on lte=2, the second on eq=4, and the
\* error of eq=4 on the sequence is returned.
C18_LengthOneTwoFour ==
    (/\ pc = "validateField"
     /\ validators = ExprSeqLen
     /\ value.kind \in {"slice", "array"}
     /\ ~ContainsStruct(value))
    => /\ IsErr(result.err) <=> Len(value.elems) \notin {1, 2, 4}
       /\ Len(value.elems) = 3 =>
            /\ result.err
                 = ErrorValidation(NodeName, value, ValidatorEq, <<"4">>)
            /\ Len(RuleEntries(result.log)) = 3

\* [3]int{1, 1, 1} fails on eq=4 after gte=1 passed and lte=2 failed
C18_Witness ==
    /\ pc = "validateField"
    /\ validators = ExprSeqLen
    /\ value = ArrayV(<<IntV(1), IntV(1), IntV(1)>>)
    /\ result.err.type = "validation"
    /\ result.err.validatorType = ValidatorEq

\* C19 as stated: setting a field name on an error changes it if and only
\* if the error's field name is empty; a name already set is kept.
C19_SetOnlyIfEmpty ==
    (pc = "setFieldName")
    => named.out = IF named.in.fieldName = ""
                   THEN [named.in EXCEPT !.fieldName = named.fieldName]
                   ELSE named.in

\* the node the walk of v stopped at, given the log of the walk
LastNode(v, name, log) == PreOrder(v, name)[Len(Visited(log))]

\* C19 (amended): a validation error returned by validateField or Validate
\* carries the name of the nearest struct field around the failing value
\* (children of maps, sequences and pointers have the name of the field
\* that holds them); the name is given when the error is made and no frame
\* changes it.  setFieldName, which no frame calls, replaces the name of a
\* validation or syntax error whether or not one is set.
C19_NearestFieldName ==
    /\ (pc = "validateField" /\ result.err.type = "validation")
       => /\ result.err.fieldName
               = LastNode(value, NodeName, result.log).fieldName
          /\ result.err.fieldValue
               = LastNode(value, NodeName, result.log).value
    /\ (pc = "Validate" /\ top.err.type = "validation")
       => /\ top.err.fieldName = LastNode(element, "", top.log).fieldName
          /\ top.err.fieldValue = LastNode(element, "", top.log).value
          /\ top.err.fieldName # ""
    /\ (pc = "setFieldName")
       => named.out = [named.in EXCEPT !.fieldName = named.fieldName]

\* the error of the inner field, below the field "outer", keeps the name
\* "node" through Validate, and setFieldName then replaces it
C19_Witness ==
    /\ pc = "setFieldName"
    /\ element = Wrap("remainder", value, validators)
    /\ named.in = top.err
    /\ named.in.fieldName = NodeName
    /\ named.fieldName = OuterName
    /\ named.out.fieldName = OuterName

RECURSIVE ExpectedAnd(_, _, _)
\* the rules of one '&' group to invoke from the j-th on: left to right, up
\* to and including the first that fails
ExpectedAnd(v, validatorsAnd, j) ==
    IF j > Len(validatorsAnd) THEN <<>>
    ELSE <<validatorsAnd[j]>>
         \o (IF RuleSatisfied(v, validatorsAnd[j])
             THEN ExpectedAnd(v, validatorsAnd, j + 1)
             ELSE <<>>)

RECURSIVE ExpectedOr(_, _, _)
\* the rules to invoke from the k-th '|' group on: group after group, up to
\* and including the first group that is satisfied
ExpectedOr(v, validatorsOr, k) ==
    IF k > Len(validatorsOr) THEN <<>>
    ELSE ExpectedAnd(v, validatorsOr[k], 1)
         \o (IF GroupSatisfied(v, validatorsOr[k])
             THEN <<>>
             ELSE ExpectedOr(v, validatorsOr, k + 1))

RECURSIVE RuleRun(_, _)
\* the validator calls recorded in the log from the i-th entry up to the
\* next entry that is not one
RuleRun(log, i) ==
    IF i > Len(log) \/ log[i].op # "rule" THEN <<>>
    ELSE <<[Type |-> log[i].validatorType, Value |-> log[i].param]>>
         \o RuleRun(log, i + 1)

\* where the rule stage of the node starts in its log: after the visit and
\* the call of the Validate() method, if one is made
NodeRulesStart ==
    Len(NodeVisit) + Len(customValidatorStep(value, NodeName, FALSE).log) + 1

\* C20: on a node whose rules are all registered the validator functions
\* are called left to right; in a '&' group none is called after the first
\* that fails, and no group is tried after the first group that is
\* satisfied.
C20_ShortCircuit ==
    (/\ pc = "validateField"
     /\ result.stage # "custom"
     /\ AllRegistered(ParsedRules))
    => /\ RuleRun(result.log, NodeRulesStart) = ExpectedOr(value, ParsedRules, 1)
       /\ \A i \in LogOps(result.log, "rule") :
              i >= NodeRulesStart + Len(ExpectedOr(value, ParsedRules, 1))
              => result.log[i].value # value

\* 'a & b | c': a fails, b is not called, c is called and passes
C20_Witness ==
    /\ pc = "validateField"
    /\ AllRegistered(ParsedRules)
    /\ Len(ParsedRules) = 2
    /\ Len(ParsedRules[1]) = 2
    /\ ~RuleSatisfied(value, ParsedRules[1][1])
    /\ RuleSatisfied(value, ParsedRules[1][2])
    /\ GroupSatisfied(value, ParsedRules[2])
    /\ RuleRun(result.log, NodeRulesStart) = <<ParsedRules[1][1], ParsedRules[2][1]>>
    /\ ~IsErr(result.err)

\* a registered rule that v violates
RuleFails(v, rule) ==
    rule.Type \in getValidatorTypeMap /\ ~RuleSatisfied(v, rule)

GroupFails(v, validatorsAnd) ==
    \E j \in 1..Len(validatorsAnd) : RuleFails(v, validatorsAnd[j])

\* the leftmost rule of the group that v violates
FirstFailing(v, validatorsAnd) ==
    validatorsAnd[CHOOSE j \in 1..Len(validatorsAnd) :
                      /\ RuleFails(v, validatorsAnd[j])
                      /\ \A i \in 1..(j - 1) : ~RuleFails(v, validatorsAnd[i])]

\* C21: when every '|' group of a node has a rule the value violates, the
\* rule stage returns the validation error of the first violated rule of
\* the last group, with the node's field name and value.
C21_LastGroupFirstFailure ==
    (/\ pc = "validateField"
     /\ result.stage # "custom"
     /\ ParsedRules # <<>>
     /\ \A k \in 1..Len(ParsedRules) : GroupFails(value, ParsedRules[k]))
    => /\ result.stage = "rules"
       /\ result.err
            = ErrorValidation(
                  NodeName, value,
                  FirstFailing(value, ParsedRules[Len(ParsedRules)]).Type,
                  FirstFailing(value, ParsedRules[Len(ParsedRules)]).Value)

\* 2 with 'gte=0 & lte=1 | gte=3 & lte=4': lte=1 fails, then gte=3 fails and
\* its error is the one returned
C21_Witness ==
    /\ pc = "validateField"
    /\ value = IntV(2)
    /\ validators = ExprAndOr
    /\ result.err = ErrorValidation(NodeName, IntV(2), ValidatorGte, <<"3">>)

\* the positions (1-based) of the character c in s
Positions(s, c) == {p \in 1..Len(s) : s[p] = c}

\* the bracket depth of s just before position p
DepthAt(s, p) ==
    Cardinality({q \in Positions(s, "[") : q < p})
    - Cardinality({q \in Positions(s, "]") : q < p})

\* every ']' closes a '[' and every '[' is closed
Balanced(s) ==
    /\ \A p \in 1..Len(s) : DepthAt(s, p + 1) >= 0
    /\ DepthAt(s, Len(s) + 1) = 0

\* the position of the first '>' outside brackets, Len(s) + 1 if none
FirstDive(s) ==
    IF \E p \in Positions(s, ">") : DepthAt(s, p) = 0
    THEN CHOOSE p \in Positions(s, ">") :
             /\ DepthAt(s, p) = 0
             /\ \A q \in Positions(s, ">") : DepthAt(s, q) = 0 => p <= q
    ELSE Len(s) + 1

\* the positions where a top-level bracket group opens before the first
\* dive operator
GroupOpens(s) ==
    {p \in Positions(s, "[") : p < FirstDive(s) /\ DepthAt(s, p) = 0}

\* the position of the ']' closing the group opened at o
GroupClose(s, o) ==
    CHOOSE c \in Positions(s, "]") :
        /\ c > o
        /\ DepthAt(s, c + 1) = 0
        /\ \A q \in Positions(s, "]") : (q > o /\ DepthAt(s, q + 1) = 0) => c <= q

\* the text of s around and inside its bracket group, when it has one
TextBefore(s) ==
    IF GroupOpens(s) = {} THEN <<>>
    ELSE SubSeq(s, 1, (CHOOSE o \in GroupOpens(s) : TRUE) - 1)

TextInside(s) ==
    IF GroupOpens(s) = {} THEN <<>>
    ELSE SubSeq(s, (CHOOSE o \in GroupOpens(s) : TRUE) + 1,
                GroupClose(s, CHOOSE o \in GroupOpens(s) : TRUE) - 1)

TextAfter(s) ==
    IF GroupOpens(s) = {} THEN SubSeq(s, 1, FirstDive(s) - 1)
    ELSE SubSeq(s, GroupClose(s, CHOOSE o \in GroupOpens(s) : TRUE) + 1,
                FirstDive(s) - 1)

TextRemainder(s) == SubSeq(s, FirstDive(s) + 1, Len(s))

\* a balanced expression with at most one bracket group before the dive
OneGroup(s) == Balanced(s) /\ Cardinality(GroupOpens(s)) <= 1

\* C22 as stated: the value expression is the text before the group and
\* the text after it, with one space between them if both are non-empty.
C22_SpaceBetweenNonEmpty ==
    (pc = "splitValidators" /\ OneGroup(validators))
    => split.valValidators
         = IF TextBefore(validators) # <<>> /\ TextAfter(validators) # <<>>
           THEN TextBefore(validators) \o <<" ">> \o TextAfter(validators)
           ELSE TextBefore(validators) \o TextAfter(validators)

\* C22 (amended): for a balanced expression with at most one top-level
\* bracket group before the first '>' outside brackets, splitValidators
\* returns the text inside the group as key expression, everything after
\* that '>' as remainder, and as value expression the text before the
\* group followed by the text between the group and the '>', with one
\* space between them whenever the text before the group is non-empty.
C22_Split ==
    (pc = "splitValidators" /\ OneGroup(validators))
    => /\ split.keyValidators = TextInside(validators)
       /\ split.remaningValidators = TextRemainder(validators)
       /\ split.valValidators
            = IF TextBefore(validators) # <<>>
              THEN TextBefore(validators) \o <<" ">> \o TextAfter(validators)
              ELSE TextAfter(validators)

\* 'gte=0[]': text before the group, nothing after it
C22_Witness ==
    /\ pc = "splitValidators"
    /\ validators = ExprGte0 \o <<"[", "]">>
    /\ OneGroup(validators)
    /\ TextBefore(validators) = ExprGte0
    /\ TextAfter(validators) = <<>>
    /\ split.valValidators = ExprGte0 \o <<" ">>

\* the rule strings of one '|' entry that hold a rule name
RuleStrings(entryOr) ==
    SelectSeq(Split(entryOr, "&"),
              LAMBDA r : \E p \in 1..Len(Split(r, "=")[1]) :
                             IsTypeChar(Split(r, "=")[1][p]))

\* the '|' entries that hold a rule string with a name
GroupStrings(s) == SelectSeq(Split(s, "|"), LAMBDA g : RuleStrings(g) # <<>>)

\* the text of a rule string after its '=', without the blanks around it
ParamOf(r) ==
    IF Positions(r, "=") = {} THEN <<>>
    ELSE TrimSpace(SubSeq(r, (CHOOSE p \in Positions(r, "=") :
                                 \A q \in Positions(r, "=") : p <= q) + 1,
                          Len(r)))

\* t occurs in s as a run of consecutive characters
IsInfix(t, s) ==
    \E p \in 0..(Len(s) - Len(t)) : SubSeq(s, p + 1, p + Len(t)) = t

\* no rule string of s has more than one '='
AtMostOneEq(s) ==
    \A k \in 1..Len(Split(s, "|")) :
        \A j \in 1..Len(Split(Split(s, "|")[k], "&")) :
            Cardinality(Positions(Split(Split(s, "|")[k], "&")[j], "=")) <= 1

\* C23: for an expression whose rule strings have at most one '=',
\* parseValidators returns one group per '|' entry that holds a rule and,
\* in it, one rule per '&' entry that holds a name, in source order; no
\* group is empty; every name is a non-empty run of letters, digits and '_'
\* taken from before the '='; the parameter is the text after the '=' with
\* the blanks around it removed and those inside it kept, and is empty
\* without '='; a blank expression gives the empty rule set.
C23_Parsed ==
    (pc = "parseValidators" /\ AtMostOneEq(validators))
    => /\ Len(parsed) = Len(GroupStrings(validators))
       /\ \A k \in 1..Len(parsed) :
             /\ parsed[k] # <<>>
             /\ Len(parsed[k]) = Len(RuleStrings(GroupStrings(validators)[k]))
             /\ \A j \in 1..Len(parsed[k]) :
                   /\ parsed[k][j].Type # <<>>
                   /\ \A p \in 1..Len(parsed[k][j].Type) :
                          IsTypeChar(parsed[k][j].Type[p])
                   /\ IsInfix(parsed[k][j].Type,
                              Split(RuleStrings(GroupStrings(validators)[k])[j],
                                    "=")[1])
                   /\ parsed[k][j].Value
                        = ParamOf(RuleStrings(GroupStrings(validators)[k])[j])
       /\ TrimSpace(validators) = <<>> => parsed = <<>>

\* ' val = b , c | | x ': the blank group is dropped, the blanks inside
\* 'b , c' are kept, x has no parameter
C23_Witness ==
    /\ pc = "parseValidators"
    /\ validators = ExprInner
    /\ parsed = <<<<[Type |-> <<"v", "a", "l">>,
                     Value |-> <<"b", " ", ",", " ", "c">>]>>,
                  <<[Type |-> <<"x">>, Value |-> <<>>]>>>>

\* the text of a rule string before its first '=', without the blanks
\* around it
NameOf(r) == TrimSpace(Split(r, "=")[1])

\* C24: a rule string with more than one '=' is split at the first '='
\* only: the name is the trimmed text before it and the parameter is all
\* the text after it, trimmed, later '=' included.
C24_FirstEqOnly ==
    (/\ pc = "parseValidators"
     /\ Positions(validators, "&") = {}
     /\ Positions(validators, "|") = {}
     /\ Cardinality(Positions(validators, "=")) > 1
     /\ NameOf(validators) # <<>>
     /\ \A p \in 1..Len(NameOf(validators)) : IsTypeChar(NameOf(validators)[p]))
    => parsed = <<<<[Type |-> NameOf(validators),
                     Value |-> ParamOf(validators)]>>>>

\* the parameter gives the validator something to compare the value with:
\* it parses for the kind of the value; for one_of, some token does
ParamCompared(validatorType, kind, param) ==
    IF validatorType = ValidatorOneOf
    THEN \E k \in 1..Len(parseTokens(param)) :
             IF kind = "int" THEN ParseInt(parseTokens(param)[k]).ok
             ELSE IF kind = "uint" THEN ParseUint(parseTokens(param)[k]).ok
             ELSE TRUE
    ELSE ParamParses(validatorType, kind, param)

\* C25: a validation error comes only from a comparison with a parameter
\* that parsed: no validator, one_of included, returns one when its
\* parameter (every token of it) does not parse for the kind of the value.
C25_ValidationOnlyAfterParse ==
    (/\ pc = "validateField"
     /\ result.err.type = "validation")
    => ParamCompared(result.err.validatorType, result.err.fieldValue.kind,
                     result.err.validatorValue)

\* C26: the verdict of the rule stage does not depend on the order of the
\* '|' groups, also when a group holds only unregistered names: 'X | Y' and
\* 'Y | X' both pass or both fail.
C26_OrCommutes ==
    \A x \in RuleAtoms : \A y \in RuleAtoms :
        (pc = "validateField" /\ validators = x \o Bar \o y)
        => (IsErr(result.err)
            <=> IsErr(validateField(value, NodeName, y \o Bar \o x, FALSE).err))

\* the method calls made through a nil pointer
NilCalls(log) ==
    {k \in LogOps(log, "custom") :
         log[k].value.kind = "ptr" /\ ValueIsNil(log[k].value)}

\* C27: Validate and validateField return normally on every value that
\* holds a nil pointer, also a nil pointer to a type with a Validate()
\* method: the method is not called through the nil pointer.
C27_NilPointerSafe ==
    /\ pc = "validateField"
       => (result.err.type # "panic" /\ NilCalls(result.log) = {})
    /\ pc = "Validate"
       => (top.err.type # "panic" /\ NilCalls(top.log) = {})

Brackets(s) == Positions(s, "[") \cup Positions(s, "]")

\* C29: for a balanced expression, also one with several top-level bracket
\* groups before the first dive operator, the value expression holds no
\* bracket, and no rule taken from inside brackets is applied to the node
\* itself.
C29_NoBracketTextInValue ==
    /\ (pc = "splitValidators" /\ Balanced(validators))
       => Brackets(split.valValidators) = {}
    /\ (pc = "validateField" /\ Balanced(validators))
       => \A k \in LogOps(result.log, "rule") :
              result.log[k].value = value => Brackets(result.log[k].param) = {}

====
